---- MODULE Spec2Model ----
(***************************************************************************)
(* SmartScan: document boundary detection, corner ordering, perspective    *)
(* correction and the enhancement fallback of the scan pipeline.           *)
(*                                                                         *)
(* Points are records [x, y] in image coordinates (x to the right, y       *)
(* downwards, as on a canvas).  Confidences are exact rationals [n, d].    *)
(***************************************************************************)
EXTENDS Integers, Sequences, FiniteSets, TLC

VARIABLES
  ocIn,        \* orderCorners: the corners array passed in
  ocOut,       \* orderCorners: the returned array (<<>> before the call)
  ocCalled,    \* orderCorners: whether the call has returned
  fbContours,  \* findBestQuadrilateral: the contours handed in
  fbImageArea, \* findBestQuadrilateral: imageArea
  fbResult,    \* findBestQuadrilateral: the value returned
  fbCalled,    \* findBestQuadrilateral: whether the call has returned
  cvAvailable, \* the global cv is defined and has cv.Mat (opencv.js has loaded)
  isReady,     \* scanner.isReady
  callerPc,    \* where each user of the scanner stands
  detection,   \* what the last detectDocument call did
  ptSource,    \* perspectiveTransform: width and height of the source image
  ptCorners,   \* perspectiveTransform: the corners passed in
  ptOut,       \* perspectiveTransform: the canvas returned, or the throw
  screen,          \* state.screen, as showScreen sets it
  isMultiPageMode, \* state.isMultiPageMode
  scannedPages,    \* state.scannedPages
  currentImage,    \* state.currentImage, as processImage sets it
  cropState,       \* cropState: the original image and the corners chosen
  resultCanvas,    \* applyCropAndContinue: resultCanvas after the inner try
  pdResult,        \* processDocument: what its promise settled with
  enhanceOutcome,  \* how the enhance call of each of its callers ended
  consoleWarnings, \* what console.warn has been given
  errorToasts,     \* what showToast(.., 'error') has shown
  ocrIsReady,        \* ocrService.isReady
  engine,            \* ocrService.engine: the init call that created it, or "none"
  createEngine,      \* ocrService.createEngine is set (the OCR library is imported)
  ocrLoadProgress,   \* ocrService.loadProgress
  progressIntervals, \* the init calls whose progressInterval is running
  enginesCreated,    \* the init calls that have created and initialized an engine
  ocrPc,             \* where each caller's ocrService.init() stands
  clsIsReady,        \* classifier.isReady
  useMLModel,        \* classifier.useMLModel
  pipeline,          \* classifier.pipeline: the init call that loaded it, or "none"
  pipelineLoads,     \* the init calls that have called pipeline(..)
  clsPc,             \* where each caller's classifier.init() stands
  ocrText,         \* processImage: ocrResult.text
  structuredData,  \* processImage: ocrResult.structuredData
  keywordResult,   \* classify: what keywordClassify returned
  mlResult,        \* classify: what mlClassify returned, when it was called
  classification,  \* processImage: what classify returned
  alternatives,    \* what getAlternatives(classification) returned
  analysisPc,      \* where the analysis of the text stands
  today,           \* extractBestDate: new Date(), in hours of local time
  utcOffset,       \* the hours local time is ahead of UTC
  dates,           \* extractBestDate: the candidate strings
  parsedDates,     \* extractBestDate: year, month, day and parsed of each candidate
  bestDate,        \* extractBestDate: what it returned, "pending" before the call
  currentMetadata, \* state.currentMetadata, as setMetadata sets it
  detectionState,  \* detectionState: isRunning, lastCorners, stableFrames, animationFrame
  frameRequests,   \* the requestAnimationFrame callbacks not yet run or cancelled
  frame,           \* detectFrame: the detection of the frame processed last
  captureTimers,   \* the 300 ms timeouts of detectFrame that have not fired yet
  capturing,       \* the captureImage calls waiting for camera.capture()
  cameraOn,        \* camera.stream is set
  scanPc,          \* the startScan calls waiting for camera.start() and scanner.init()
  captureCalls,    \* the captureImage calls since the last startScan
  dropboxAPI,      \* dropboxAPI: accessToken, refreshToken, tokenExpiry, the client id
  apiCall          \* where the apiRequest call stands and what it has done

orderVars == <<ocIn, ocOut, ocCalled>>
quadVars == <<fbContours, fbImageArea, fbResult, fbCalled>>
detectVars == <<cvAvailable, isReady, callerPc, detection>>
warpVars == <<ptSource, ptCorners, ptOut>>
pipeVars == <<screen, isMultiPageMode, scannedPages, currentImage, cropState,
              resultCanvas, pdResult, enhanceOutcome, consoleWarnings, errorToasts>>
ocrVars == <<ocrIsReady, engine, createEngine, ocrLoadProgress, progressIntervals,
             enginesCreated, ocrPc>>
clsVars == <<clsIsReady, useMLModel, pipeline, pipelineLoads, clsPc>>
backendVars == <<ocrVars, clsVars>>
analysisVars == <<ocrText, structuredData, keywordResult, mlResult, classification,
                  alternatives, analysisPc>>
dateVars == <<today, utcOffset, dates, parsedDates, bestDate>>
cameraVars == <<detectionState, frameRequests, frame, captureTimers, capturing,
                cameraOn, scanPc, captureCalls>>
dropboxVars == <<dropboxAPI, apiCall>>
sideVars == <<dateVars, currentMetadata, cameraVars, dropboxVars>>

vars == <<ocIn, ocOut, ocCalled, fbContours, fbImageArea, fbResult, fbCalled,
          cvAvailable, isReady, callerPc, detection, ptSource, ptCorners, ptOut,
          screen, isMultiPageMode, scannedPages, currentImage, cropState,
          resultCanvas, pdResult, enhanceOutcome, consoleWarnings, errorToasts,
          ocrIsReady, engine, createEngine, ocrLoadProgress, progressIntervals,
          enginesCreated, ocrPc,
          clsIsReady, useMLModel, pipeline, pipelineLoads, clsPc,
          ocrText, structuredData, keywordResult, mlResult, classification,
          alternatives, analysisPc,
          today, utcOffset, dates, parsedDates, bestDate, currentMetadata,
          detectionState, frameRequests, frame, captureTimers, capturing,
          cameraOn, scanPc, captureCalls, dropboxAPI, apiCall>>

\* what an action of one part leaves alone
otherThanOrder == <<quadVars, detectVars, warpVars, pipeVars, backendVars, analysisVars,
  sideVars>>
otherThanQuad == <<orderVars, detectVars, warpVars, pipeVars, backendVars, analysisVars,
  sideVars>>
otherThanDetect == <<orderVars, quadVars, warpVars, pipeVars, backendVars, analysisVars,
  sideVars>>
otherThanWarp == <<orderVars, quadVars, detectVars, pipeVars, backendVars, analysisVars,
  sideVars>>
otherThanScanning ==
  <<orderVars, quadVars, warpVars, backendVars, analysisVars, sideVars>>
otherThanOcr ==
  <<orderVars, quadVars, detectVars, warpVars, pipeVars, clsVars, analysisVars,
    sideVars>>
otherThanClassifier ==
  <<orderVars, quadVars, detectVars, warpVars, pipeVars, ocrVars, analysisVars,
    sideVars>>
otherThanAnalysis ==
  <<orderVars, quadVars, detectVars, warpVars, pipeVars, ocrVars, sideVars>>
mainVars ==
  <<orderVars, quadVars, detectVars, warpVars, pipeVars, backendVars, analysisVars>>
otherThanDates == <<mainVars, currentMetadata, cameraVars, dropboxVars>>
otherThanDropbox == <<mainVars, dateVars, currentMetadata, cameraVars>>
\* what neither the camera screen nor a return to the home screen touches
otherThanCamera ==
  <<orderVars, quadVars, detectVars, warpVars, resultCanvas, pdResult,
    enhanceOutcome, consoleWarnings, backendVars, analysisVars, dateVars,
    dropboxVars>>
\* what processImage leaves alone besides the scanner and the pipeline
otherThanProcessing ==
  <<orderVars, quadVars, warpVars, backendVars, analysisVars, dateVars,
    cameraVars, dropboxVars>>

----------------------------------------------------------------------------
(* Bounds of the model *)

GridMax == 2          \* corner coordinates range over 0..GridMax
MaxContours == 2      \* contours per findContours result
MaxImgTens == 2       \* images are 10x20, 20x30, .. up to width 10 * MaxImgTens
MaxFrameContours == 1 \* contours per strategy when a whole source is scanned
MaxDimSteps == 4      \* warped images are 40, 80, .. 40 * MaxDimSteps pixels wide or high
MaxDates == 2         \* date candidates per call of extractBestDate
MaxInFlight == 1      \* callbacks and continuations pending when a scan is started
MaxCaptures == 2      \* captureImage calls per scan
MaxFetches == 3       \* fetches of one apiRequest call

----------------------------------------------------------------------------
(* Geometry helpers *)

Pt(px, py) == [x |-> px, y |-> py]

Grid == {Pt(px, py) : px \in 0..GridMax, py \in 0..GridMax}

Min2(a, b) == IF a <= b THEN a ELSE b
Max2(a, b) == IF a >= b THEN a ELSE b

\* squared euclidean distance; distance(p1, p2) is its square root
distanceSq(p1, p2) == (p2.x - p1.x) * (p2.x - p1.x) + (p2.y - p1.y) * (p2.y - p1.y)

----------------------------------------------------------------------------
(* orderCorners *)

\* 4 * (p - center): the vector whose atan2 is taken, scaled to stay integral
centerVec(corners, p) ==
  [x |-> 4 * p.x - (corners[1].x + corners[2].x + corners[3].x + corners[4].x),
   y |-> 4 * p.y - (corners[1].y + corners[2].y + corners[3].y + corners[4].y)]

\* Math.atan2(v.y, v.x) ranges over (-pi, pi]; its value falls in one of four
\* bands, in ascending order: (-pi,0), {0}, (0,pi), {pi}.  atan2(0,0) is 0.
angleBand(v) ==
  IF v.y < 0 THEN 0
  ELSE IF v.y = 0 /\ v.x >= 0 THEN 1
  ELSE IF v.y > 0 THEN 2
  ELSE 3

\* atan2(a) < atan2(b)
angleLess(a, b) ==
  \/ angleBand(a) < angleBand(b)
  \/ /\ angleBand(a) = angleBand(b)
     /\ a.x * b.y - a.y * b.x > 0

angleEq(a, b) == ~angleLess(a, b) /\ ~angleLess(b, a)

\* withAngles.sort((a, b) => a.angle - b.angle): a stable sort; sortRank is
\* the 0-based position element i of the input takes in the sorted array
sortRank(vecs, i) ==
  Cardinality({j \in 1..4 :
     \/ angleLess(vecs[j], vecs[i])
     \/ (j < i /\ angleEq(vecs[j], vecs[i]))})

\* the atan2 arguments of the four corners
centerVecs(corners) == [i \in 1..4 |-> centerVec(corners, corners[i])]

\* the position each corner takes in the sorted array, 0-based
sortRanks(vecs) == [i \in 1..4 |-> sortRank(vecs, i)]

sortedBy(corners, rank) ==
  [k \in 1..4 |-> corners[CHOOSE i \in 1..4 : rank[i] = k - 1]]

\* the vectors, then the ranks, are computed once each and handed on
sortByAngle(corners) ==
  CHOOSE sorted \in
    UNION {{sortedBy(corners, rank) : rank \in {sortRanks(vecs)}} :
             vecs \in {centerVecs(corners)}} : TRUE

\* the loop over i with "if (sum < minSum)": the first index of minimal x + y
topLeftIndexOf(sorted) ==
  CHOOSE i \in 1..4 :
    /\ \A j \in 1..4 : sorted[i].x + sorted[i].y <= sorted[j].x + sorted[j].y
    /\ \A j \in 1..(i - 1) : sorted[j].x + sorted[j].y > sorted[i].x + sorted[i].y

\* ordered[i] = withAngles[(topLeftIndex + i) % 4], 1-based here
rotateToTopLeft(sorted) ==
  CHOOSE ordered \in
    {[k \in 1..4 |-> sorted[((topLeftIndex - 1 + (k - 1)) % 4) + 1]] :
       topLeftIndex \in {topLeftIndexOf(sorted)}} : TRUE

\* a slip in the returned permutation: the middle pair swapped instead of 2nd/4th
pickReturnOrderCrossed(ordered) == <<ordered[1], ordered[3], ordered[2], ordered[4]>>

\* return [ordered[0], ordered[3], ordered[2], ordered[1]]
pickReturnOrder(ordered) == <<ordered[1], ordered[4], ordered[3], ordered[2]>>

orderCorners(corners) ==
  IF Len(corners) # 4 THEN corners
  ELSE CHOOSE result \in
         {pickReturnOrder(rotateToTopLeft(sorted)) :
            sorted \in {sortByAngle(corners)}} : TRUE

----------------------------------------------------------------------------
(* DETECTION_CONFIG *)

minAreaPercentPct == 10     \* minAreaPercent 0.10, in percent
maxAreaPercentPct == 98     \* maxAreaPercent 0.98, in percent

----------------------------------------------------------------------------
(* Confidences: exact rationals n/d with d > 0 *)

Conf(num, den) == [n |-> num, d |-> den]
ConfZero == Conf(0, 1)
ConfGT(a, b) == a.n * b.d > b.n * a.d
ConfEq(a, b) == a.n * b.d = b.n * a.d
ConfLE(a, b) == ~ConfGT(a, b)
ConfOne == Conf(1, 1)
ConfThreshold == Conf(3, 10)      \* the 0.3 every caller compares against

----------------------------------------------------------------------------
(* calculateAspectRatio and findBestQuadrilateral *)

\* width and height are maxima of opposite side lengths; the ratio
\* max(width,height)/min(width,height) is kept as the pair of their squares
calculateAspectRatio(corners) ==
  LET widthSq  == Max2(distanceSq(corners[1], corners[2]),
                       distanceSq(corners[4], corners[3]))
      heightSq == Max2(distanceSq(corners[1], corners[4]),
                       distanceSq(corners[2], corners[3]))
  IN  [hiSq |-> Max2(widthSq, heightSq), loSq |-> Min2(widthSq, heightSq)]

\* aspectRatio < minAspectRatio (0.4): hi/lo < 2/5.  x/0 is Infinity and 0/0
\* is NaN, of which no comparison is true
aspectBelowMin(ar) == ar.loSq > 0 /\ 25 * ar.hiSq < 4 * ar.loSq

\* aspectRatio > maxAspectRatio (2.5): hi/lo > 5/2, Infinity included
aspectAboveMax(ar) ==
  \/ (ar.loSq > 0 /\ 4 * ar.hiSq > 25 * ar.loSq)
  \/ (ar.loSq = 0 /\ ar.hiSq > 0)

\* the aspect check left out
aspectRejectedNever(ar) == FALSE

aspectRejected(ar) == aspectBelowMin(ar) \/ aspectAboveMax(ar)

\* areaPercent < minAreaPercent || areaPercent > maxAreaPercent
areaSkipped(area, imageArea) ==
  \/ 100 * area < minAreaPercentPct * imageArea
  \/ 100 * area > maxAreaPercentPct * imageArea

extractCorners(approx) == orderCorners(SubSeq(approx, 1, 4))

\* cv.minAreaRect / RotatedRect.points are OpenCV's; the contour record
\* carries the four vertices they return
fitQuadrilateral(contour) == orderCorners(contour.rect)

\* the corners of a contour, <<>> standing for null
contourCorners(contour) ==
  IF contour.numPoints = 4 THEN extractCorners(contour.approx)
  ELSE IF contour.numPoints >= 4 /\ contour.numPoints <= 8
       THEN fitQuadrilateral(contour)
       ELSE <<>>

\* Math.min(areaPercent * 2.5, 1) without the cap
contourConfidenceUncapped(area, imageArea) == Conf(5 * area, 2 * imageArea)

\* Math.min(areaPercent * 2.5, 1)
contourConfidence(area, imageArea) ==
  Conf(Min2(5 * area, 2 * imageArea), 2 * imageArea)

NoQuad == [found |-> FALSE, corners |-> <<>>, confidence |-> ConfZero, area |-> 0]

\* if (!best || confidence > best.confidence)
isBetter(best, confidence) == ~best.found \/ ConfGT(confidence, best.confidence)

\* one pass of the loop body: the new value of best
considerContour(best, contour, imageArea) ==
  IF areaSkipped(contour.area, imageArea) THEN best
  ELSE LET corners == contourCorners(contour)
       IN  IF corners = <<>> THEN best
           ELSE IF aspectRejected(calculateAspectRatio(corners)) THEN best
           ELSE LET confidence == contourConfidence(contour.area, imageArea)
                IN  IF isBetter(best, confidence)
                    THEN [found |-> TRUE, corners |-> corners,
                          confidence |-> confidence, area |-> contour.area]
                    ELSE best

RECURSIVE bestOfFirst(_, _, _)
\* best after the first k contours
bestOfFirst(contours, k, imageArea) ==
  IF k = 0 THEN NoQuad
  ELSE considerContour(bestOfFirst(contours, k - 1, imageArea), contours[k], imageArea)

findBestQuadrilateral(contours, imageArea) ==
  bestOfFirst(contours, Len(contours), imageArea)

----------------------------------------------------------------------------
(* Contours as OpenCV reports them: contourArea, the number of vertices of
   the approxPolyDP polygon, its first four vertices and the vertices of the
   minAreaRect.  Vertices are distinct, in no particular order. *)

Rect(w, h) == <<Pt(w, h), Pt(0, 0), Pt(w, 0), Pt(0, h)>>
Diamond == <<Pt(1, 2), Pt(1, 0), Pt(0, 1), Pt(2, 1)>>

Contour(pct, n, shape, imageArea) ==
  [area |-> (pct * imageArea) \div 100, numPoints |-> n,
   approx |-> shape, rect |-> shape]

ContourPool(imageArea) ==
  {Contour(pct, 4, Rect(3, 2), imageArea) : pct \in {5, 10, 20, 40, 98, 99}}
    \cup {Contour(20, n, Diamond, imageArea) : n \in {3, 6, 9}}
    \cup {Contour(40, n, shape, imageArea) :
            n \in {4, 8}, shape \in {Rect(5, 2), Rect(3, 1), Rect(1, 3)}}
    \cup {Contour(pct, 4, Rect(6, 2), imageArea) : pct \in {10, 98}}

SeqsUpTo(S, maxLen) == UNION {[1..k -> S] : k \in 0..maxLen}

QuadImageAreas == {100, 200}

----------------------------------------------------------------------------
(* The three detection strategies.  Everything up to cv.findContours is
   OpenCV's; a strategy is modelled from the contours it gets. *)

strategyResult(bestContour) ==
  IF bestContour.found
  THEN [corners |-> bestContour.corners, confidence |-> bestContour.confidence]
  ELSE [corners |-> <<>>, confidence |-> ConfZero]

detectWithCanny(contours, imageArea) ==
  strategyResult(findBestQuadrilateral(contours, imageArea))

detectWithAdaptiveThreshold(contours, imageArea) ==
  strategyResult(findBestQuadrilateral(contours, imageArea))

\* result.confidence = bestContour.confidence * 0.9
detectBrightRegion(contours, imageArea) ==
  LET bestContour == findBestQuadrilateral(contours, imageArea)
  IN  IF bestContour.found
      THEN [corners |-> bestContour.corners,
            confidence |-> Conf(9 * bestContour.confidence.n,
                                10 * bestContour.confidence.d)]
      ELSE [corners |-> <<>>, confidence |-> ConfZero]

----------------------------------------------------------------------------
(* getDefaultCorners and detectDocument *)

\* the corners listed in a wrong order (top-left, bottom-left, ...)
getDefaultCornersTransposed(width, height) ==
  LET marginX == width \div 10
      marginY == height \div 10
  IN  <<Pt(marginX, marginY), Pt(marginX, height - marginY),
        Pt(width - marginX, height - marginY), Pt(width - marginX, marginY)>>

\* marginX = width * 0.1, marginY = height * 0.1 (widths and heights are
\* multiples of 10 here)
getDefaultCorners(width, height) ==
  LET marginX == width \div 10
      marginY == height \div 10
  IN  <<Pt(marginX, marginY), Pt(width - marginX, marginY),
        Pt(width - marginX, height - marginY), Pt(marginX, height - marginY)>>

NoDocumentReason == "Kein Dokument erkannt"

\* any quadrilateral found is taken, whatever its confidence
qualifiesWhenFound(strategyDetection) ==
  ConfGT(strategyDetection.confidence, ConfZero)

\* "detection.confidence >= 0.3" in place of "> 0.3"
qualifiesAtThreshold(strategyDetection) ==
  ~ConfGT(ConfThreshold, strategyDetection.confidence)

\* detection.confidence > 0.3
qualifies(strategyDetection) == ConfGT(strategyDetection.confidence, ConfThreshold)

Ran(name, strategyDetection) ==
  [strategy |-> name, corners |-> strategyDetection.corners,
   confidence |-> strategyDetection.confidence]

Returned(source, corners, confidence, reason, ran) ==
  [threw |-> FALSE, width |-> source.width, height |-> source.height,
   corners |-> corners, confidence |-> confidence, reason |-> reason, ran |-> ran]

\* throw new Error('OpenCV not initialized')
Threw(source) ==
  [threw |-> TRUE, width |-> source.width, height |-> source.height,
   corners |-> <<>>, confidence |-> ConfZero, reason |-> "", ran |-> <<>>]

\* source.canny, source.adaptive and source.bright are what detectWithCanny,
\* detectWithAdaptiveThreshold and detectBrightRegion return on this source;
\* ran lists the strategies that were called, reason "" stands for null
detectDocument(ready, source) ==
  IF ~ready THEN Threw(source)
  ELSE IF qualifies(source.canny)
    THEN Returned(source, source.canny.corners, source.canny.confidence, "",
                  <<Ran("canny", source.canny)>>)
  ELSE IF qualifies(source.adaptive)
    THEN Returned(source, source.adaptive.corners, source.adaptive.confidence, "",
                  <<Ran("canny", source.canny), Ran("adaptive", source.adaptive)>>)
  ELSE IF qualifies(source.bright)
    THEN Returned(source, source.bright.corners, source.bright.confidence, "",
                  <<Ran("canny", source.canny), Ran("adaptive", source.adaptive),
                    Ran("bright", source.bright)>>)
  ELSE Returned(source, getDefaultCorners(source.width, source.height), ConfZero,
                NoDocumentReason,
                <<Ran("canny", source.canny), Ran("adaptive", source.adaptive),
                  Ran("bright", source.bright)>>)

----------------------------------------------------------------------------
(* Sources: images with what each strategy finds in them *)

Images == {[width |-> 10 * i, height |-> 10 * (i + 1)] : i \in 1..MaxImgTens}

FramePool(imageArea) ==
  {Contour(12, 4, Rect(3, 2), imageArea), Contour(13, 4, Diamond, imageArea),
   Contour(40, 8, Rect(5, 2), imageArea)}

FrameContours(imageArea) == SeqsUpTo(FramePool(imageArea), MaxFrameContours)

Sources ==
  UNION {
    LET imageArea == img.height * img.width
        lists == FrameContours(imageArea)
    IN  {[width |-> img.width, height |-> img.height,
          canny |-> c, adaptive |-> a, bright |-> b] :
           c \in {detectWithCanny(l, imageArea) : l \in lists},
           a \in {detectWithAdaptiveThreshold(l, imageArea) : l \in lists},
           b \in {detectBrightRegion(l, imageArea) : l \in lists}}
    : img \in Images}

\* the sources in which the three strategies find the same contours
PipelineSources ==
  UNION {
    LET imageArea == img.height * img.width
    IN  {[width |-> img.width, height |-> img.height,
          canny |-> detectWithCanny(l, imageArea),
          adaptive |-> detectWithAdaptiveThreshold(l, imageArea),
          bright |-> detectBrightRegion(l, imageArea)] :
           l \in FrameContours(imageArea)}
    : img \in Images}

----------------------------------------------------------------------------
(* DocumentScanner.init and the users of the scanner *)

\* startScan (with its detectFrame loop), showCropScreen, processDocument
Callers == {"startScan", "showCropScreen", "processDocument"}

\* everything that awaits scanner.init()
ScannerUsers == Callers \cup {"applyCropAndContinue"}

NoDetection ==
  [caller |-> "none", threw |-> FALSE, width |-> 0, height |-> 0,
   corners |-> <<>>, confidence |-> ConfZero, reason |-> "", ran |-> <<>>]

\* init(), up to the point where it returns or hands back a pending promise
initCalledBy(c) ==
  IF isReady
  THEN /\ callerPc' = [callerPc EXCEPT ![c] = "inited"]
       /\ UNCHANGED isReady
  ELSE IF cvAvailable
  THEN /\ isReady' = TRUE
       /\ callerPc' = [callerPc EXCEPT ![c] = "inited"]
  ELSE /\ callerPc' = [callerPc EXCEPT ![c] = "awaitInit"]
       /\ UNCHANGED isReady

\* a caller whose first statement is "await scanner.init()"
CallInit(c) ==
  /\ callerPc[c] = "idle"
  /\ initCalledBy(c)
  /\ UNCHANGED <<cvAvailable, detection>>
  /\ UNCHANGED otherThanDetect

\* opencv.js finishes loading
CvLoads ==
  /\ ~cvAvailable
  /\ cvAvailable' = TRUE
  /\ UNCHANGED <<isReady, callerPc, detection>>
  /\ UNCHANGED otherThanDetect

\* a tick of checkInterval that finds cv
InitPollTick(c) ==
  /\ callerPc[c] = "awaitInit"
  /\ cvAvailable
  /\ isReady' = TRUE
  /\ callerPc' = [callerPc EXCEPT ![c] = "inited"]
  /\ UNCHANGED <<cvAvailable, detection>>
  /\ UNCHANGED otherThanDetect

\* the 30 s timeout settling the promise as fulfilled
afterInitTimeoutResolved(ready) == "inited"

\* the 30 s timeout: clearInterval, then reject unless isReady; when isReady
\* was set meanwhile the promise is left pending with no timer to settle it
afterInitTimeout(ready) == IF ~ready THEN "failed" ELSE "stalled"

InitTimeout(c) ==
  /\ callerPc[c] = "awaitInit"
  /\ callerPc' = [callerPc EXCEPT ![c] = afterInitTimeout(isReady)]
  /\ UNCHANGED <<cvAvailable, isReady, detection>>
  /\ UNCHANGED otherThanDetect

\* the catch around "await scanner.init()" (processDocument: the rejection
\* goes to its caller)
HandleInitFailure(c) ==
  /\ callerPc[c] = "failed"
  /\ callerPc' = [callerPc EXCEPT ![c] = "idle"]
  /\ UNCHANGED <<cvAvailable, isReady, detection>>
  /\ UNCHANGED otherThanDetect

\* the statement after "await scanner.init()": detectDocument on a source;
\* detectFrame re-arms itself, the other two callers go on and finish (what
\* processDocument goes on to do is ProcessDocument below)
Detect(c) ==
  /\ callerPc[c] = "inited"
  /\ \E source \in Sources :
       detection' = [caller |-> c] @@ detectDocument(isReady, source)
  /\ callerPc' = [callerPc EXCEPT ![c] = IF c = "startScan" THEN "inited" ELSE "idle"]
  /\ UNCHANGED <<cvAvailable, isReady>>
  /\ UNCHANGED otherThanDetect

\* stopAutoDetection: the detectFrame loop ends
StopAutoDetection ==
  /\ callerPc["startScan"] = "inited"
  /\ callerPc' = [callerPc EXCEPT !["startScan"] = "idle"]
  /\ UNCHANGED <<cvAvailable, isReady, detection>>
  /\ UNCHANGED otherThanDetect

----------------------------------------------------------------------------
(* perspectiveTransform *)

minOutputSize == 100     \* Math.max(100, ...)

\* Math.round(Math.sqrt(n)) for an integer n >= 0
roundSqrt(n) ==
  CHOOSE r \in 0..n :
    /\ 4 * n < (2 * r + 1) * (2 * r + 1)
    /\ r = 0 \/ (2 * r - 1) * (2 * r - 1) < 4 * n

\* width and height taken from the wrong pairs of sides
outputSizeTransposed(corners) ==
  [width  |-> Max2(minOutputSize,
                   roundSqrt(Max2(distanceSq(corners[1], corners[4]),
                                  distanceSq(corners[2], corners[3])))),
   height |-> Max2(minOutputSize,
                   roundSqrt(Max2(distanceSq(corners[1], corners[2]),
                                  distanceSq(corners[4], corners[3]))))]

\* the two dimensions without the minimum
outputSizeUnfloored(corners) ==
  [width  |-> roundSqrt(Max2(distanceSq(corners[1], corners[2]),
                             distanceSq(corners[4], corners[3]))),
   height |-> roundSqrt(Max2(distanceSq(corners[1], corners[4]),
                             distanceSq(corners[2], corners[3])))]

\* outWidth = max(100, round(max(distance(c0,c1), distance(c3,c2))))
\* outHeight = max(100, round(max(distance(c0,c3), distance(c1,c2))))
outputSize(corners) ==
  [width  |-> Max2(minOutputSize,
                   roundSqrt(Max2(distanceSq(corners[1], corners[2]),
                                  distanceSq(corners[4], corners[3])))),
   height |-> Max2(minOutputSize,
                   roundSqrt(Max2(distanceSq(corners[1], corners[4]),
                                  distanceSq(corners[2], corners[3]))))]

\* the canvas cv.imshow fills has the size handed to cv.warpPerspective
perspectiveTransform(ready, source, corners) ==
  IF ~ready THEN [threw |-> TRUE, width |-> 0, height |-> 0]
  ELSE [threw |-> FALSE, width |-> outputSize(corners).width,
        height |-> outputSize(corners).height]

FullFrame(source) ==
  <<Pt(0, 0), Pt(source.width, 0), Pt(source.width, source.height),
    Pt(0, source.height)>>

WarpDims == {40 * k : k \in 1..MaxDimSteps}

WarpSources == {[width |-> w, height |-> h] : w \in WarpDims, h \in WarpDims}

\* corner i is the frame corner, or lies a quarter of the way inside
WarpCorners(source) ==
  LET qw == source.width \div 4
      qh == source.height \div 4
      f == FullFrame(source)
  IN  {<<tl, tr, br, bl>> :
         tl \in {f[1], Pt(qw, qh)},
         tr \in {f[2], Pt(source.width - qw, qh)},
         br \in {f[3], Pt(source.width - qw, source.height - qh)},
         bl \in {f[4], Pt(qw, source.height - qh)}}

NoCanvas == [threw |-> FALSE, width |-> 0, height |-> 0]

----------------------------------------------------------------------------
(* enhance, simpleEnhance and the two places that call them.  A canvas is
   known by its size, by the image it shows and by the filter applied to
   it; pixel values are not represented. *)

Canvas(w, h, img, flt) == [width |-> w, height |-> h, image |-> img, filter |-> flt]

NoImage == Canvas(0, 0, "none", "none")

\* enhance: throws without OpenCV, or when one of its cv calls throws;
\* otherwise it returns a new canvas of the size of the source
enhance(ready, source, cvThrows) ==
  IF ~ready THEN [threw |-> TRUE, error |-> "OpenCV not initialized", canvas |-> NoImage]
  ELSE IF cvThrows
    THEN [threw |-> TRUE, error |-> "cv exception in enhance", canvas |-> NoImage]
  ELSE [threw |-> FALSE, error |-> "", canvas |-> [source EXCEPT !.filter = "enhance"]]

\* simpleEnhance: rewrites the pixels of the canvas it is given and returns it
simpleEnhance(canvas) == [canvas EXCEPT !.filter = "simpleEnhance"]

Warning(text, e) == [message |-> text, error |-> e]

\* the enhance call with no try around it: its exception leaves the block
enhanceInCropUncaught(canvas, enhanced) ==
  IF enhanced.threw
  THEN [escaped |-> TRUE, error |-> enhanced.error, canvas |-> canvas, warnings |-> {}]
  ELSE [escaped |-> FALSE, error |-> "", canvas |-> enhanced.canvas, warnings |-> {}]

\* applyCropAndContinue:
\*   try { resultCanvas = scanner.enhance(resultCanvas); }
\*   catch (e) { console.warn(..); resultCanvas = scanner.simpleEnhance(resultCanvas); }
enhanceInCrop(canvas, enhanced) ==
  IF enhanced.threw
  THEN [escaped |-> FALSE, error |-> "", canvas |-> simpleEnhance(canvas),
        warnings |-> {Warning("Enhancement failed:", enhanced.error)}]
  ELSE [escaped |-> FALSE, error |-> "", canvas |-> enhanced.canvas, warnings |-> {}]

\* processDocument: the same try and catch, setting result.enhanced in both
enhanceInPipeline(canvas, enhanced) ==
  IF enhanced.threw
  THEN [canvas |-> simpleEnhance(canvas), enhanced |-> TRUE,
        warnings |-> {Warning("Enhancement failed, using simple enhance:",
                              enhanced.error)}]
  ELSE [canvas |-> enhanced.canvas, enhanced |-> TRUE, warnings |-> {}]

----------------------------------------------------------------------------
(* processDocument, from the statement after "await this.init()" *)

NoResult ==
  [status |-> "none", error |-> "", canvas |-> NoImage, corners |-> <<>>,
   confidence |-> ConfZero, cropped |-> FALSE, enhanced |-> FALSE]

Rejected(e) == [NoResult EXCEPT !.status = "rejected", !.error = e]

\* a cv call inside perspectiveTransform may throw as well
warpOrThrow(ready, source, corners, cvThrows) ==
  IF cvThrows THEN [threw |-> TRUE, width |-> 0, height |-> 0]
  ELSE perspectiveTransform(ready, source, corners)

\* autoCrop, autoEnhance and enhanceOptions at their defaults
processDocument(ready, source, warpThrows, enhanceThrows) ==
  LET det == detectDocument(ready, source)
      crop == ConfGT(det.confidence, ConfThreshold)
      warped == warpOrThrow(ready, source, det.corners, warpThrows)
      canvas == IF crop
                THEN Canvas(warped.width, warped.height, "warped", "none")
                ELSE Canvas(source.width, source.height, "copy", "none")
      enhanced == enhance(ready, canvas, enhanceThrows)
      e == enhanceInPipeline(canvas, enhanced)
  IN  IF det.threw
      THEN [detection |-> det, result |-> Rejected("OpenCV not initialized"),
            enhanceOutcome |-> "none", warnings |-> {}]
      ELSE IF crop /\ warped.threw
      THEN [detection |-> det, result |-> Rejected("perspectiveTransform"),
            enhanceOutcome |-> "none", warnings |-> {}]
      ELSE [detection |-> det,
            result |-> [status |-> "returned", error |-> "", canvas |-> e.canvas,
                        corners |-> det.corners, confidence |-> det.confidence,
                        cropped |-> crop, enhanced |-> e.enhanced],
            enhanceOutcome |-> IF enhanced.threw THEN "threw" ELSE "returned",
            warnings |-> e.warnings]

ProcessDocument ==
  /\ callerPc["processDocument"] = "inited"
  /\ \E source \in PipelineSources, warpThrows \in BOOLEAN, enhanceThrows \in BOOLEAN :
       \E r \in {processDocument(isReady, source, warpThrows, enhanceThrows)} :
           /\ detection' = [caller |-> "processDocument"] @@ r.detection
           /\ pdResult' = r.result
           /\ enhanceOutcome' =
                [enhanceOutcome EXCEPT !["processDocument"] = r.enhanceOutcome]
           /\ consoleWarnings' = consoleWarnings \cup r.warnings
  /\ callerPc' = [callerPc EXCEPT !["processDocument"] = "idle"]
  /\ UNCHANGED <<cvAvailable, isReady, screen, isMultiPageMode, scannedPages,
                 currentImage, cropState, resultCanvas, errorToasts>>
  /\ UNCHANGED otherThanScanning

\* init rejected: processDocument has no try, its promise rejects too
ProcessDocumentRejected ==
  /\ callerPc["processDocument"] = "failed"
  /\ pdResult' = Rejected("OpenCV initialization timeout")
  /\ enhanceOutcome' = [enhanceOutcome EXCEPT !["processDocument"] = "none"]
  /\ callerPc' = [callerPc EXCEPT !["processDocument"] = "idle"]
  /\ UNCHANGED <<cvAvailable, isReady, detection, screen, isMultiPageMode,
                 scannedPages, currentImage, cropState, resultCanvas,
                 consoleWarnings, errorToasts>>
  /\ UNCHANGED otherThanScanning

----------------------------------------------------------------------------
(* applyCropAndContinue.  The crop canvas shows the image unscaled, so the
   corners of the overlay are corners of the original image. *)

Toast(text, cause) == [message |-> text, error |-> cause]

\* cropState.imageData, the image as it was captured or uploaded
OriginalImage(cs) == Canvas(cs.width, cs.height, "original", "none")

NoCrop == [width |-> 0, height |-> 0, corners |-> <<>>]

CropImages == {[width |-> 40 * k, height |-> 40 * (k + 1)] : k \in 1..(MaxDimSteps - 1)}

\* the whole image, or the rectangle detectDocument falls back to
CropStates ==
  UNION {{[width |-> img.width, height |-> img.height, corners |-> c] :
            c \in {FullFrame(img), getDefaultCorners(img.width, img.height)}}
         : img \in CropImages}

\* the end of either branch: addScannedPage and showScreen('multipage'), or
\* processImage up to its first await (setCurrentImage, showScreen)
cropHandsOn(image) ==
  IF isMultiPageMode
  THEN /\ scannedPages' = Append(scannedPages, image)
       /\ screen' = "multipage"
       /\ callerPc' = [callerPc EXCEPT !["applyCropAndContinue"] = "idle"]
       /\ UNCHANGED currentImage
  ELSE /\ currentImage' = image
       /\ screen' = "processing"
       /\ callerPc' = [callerPc EXCEPT !["applyCropAndContinue"] = "awaitProcess"]
       /\ UNCHANGED scannedPages

\* catch (error): console.error, the error toast, then the original image
cropCatches(cause) ==
  /\ errorToasts' = errorToasts \cup {Toast("Fehler bei Bildoptimierung: ", cause)}
  /\ cropHandsOn(OriginalImage(cropState))

\* the click on btnCropApply, up to "await scanner.init()"
ApplyCropAndContinue ==
  /\ screen = "crop"
  /\ callerPc["applyCropAndContinue"] = "idle"
  /\ screen' = "processing"
  /\ initCalledBy("applyCropAndContinue")
  /\ UNCHANGED <<cvAvailable, detection, isMultiPageMode, scannedPages,
                 currentImage, cropState, resultCanvas, pdResult, enhanceOutcome,
                 consoleWarnings, errorToasts>>
  /\ UNCHANGED otherThanScanning

\* init rejected: the outer catch
CropInitFailed ==
  /\ callerPc["applyCropAndContinue"] = "failed"
  /\ cropCatches("OpenCV initialization timeout")
  /\ UNCHANGED <<cvAvailable, isReady, detection, isMultiPageMode, cropState,
                 resultCanvas, pdResult, enhanceOutcome, consoleWarnings>>
  /\ UNCHANGED otherThanScanning

\* from the resolved init to "await fetch(dataUrl)": perspectiveTransform,
\* the enhance block, toDataURL
CropAfterInit ==
  /\ callerPc["applyCropAndContinue"] = "inited"
  /\ \E warpThrows \in BOOLEAN, enhanceThrows \in BOOLEAN :
       LET warped == warpOrThrow(isReady, cropState, cropState.corners, warpThrows)
           canvas == Canvas(warped.width, warped.height, "warped", "none")
           enhanced == enhance(isReady, canvas, enhanceThrows)
           e == enhanceInCrop(canvas, enhanced)
       IN  IF warped.threw
           THEN /\ cropCatches("perspectiveTransform")
                /\ UNCHANGED <<resultCanvas, enhanceOutcome, consoleWarnings>>
           ELSE /\ enhanceOutcome' =
                     [enhanceOutcome EXCEPT !["applyCropAndContinue"] =
                        IF enhanced.threw THEN "threw" ELSE "returned"]
                /\ consoleWarnings' = consoleWarnings \cup e.warnings
                /\ IF e.escaped
                   THEN /\ cropCatches(e.error)
                        /\ UNCHANGED resultCanvas
                   ELSE /\ resultCanvas' = e.canvas
                        /\ callerPc' = [callerPc EXCEPT
                                          !["applyCropAndContinue"] = "awaitBlob"]
                        /\ UNCHANGED <<screen, scannedPages, currentImage, errorToasts>>
  /\ UNCHANGED <<cvAvailable, isReady, detection, isMultiPageMode, cropState, pdResult>>
  /\ UNCHANGED otherThanScanning

\* the blob has arrived, or fetch has rejected
CropAfterBlob ==
  /\ callerPc["applyCropAndContinue"] = "awaitBlob"
  /\ \E fetchThrows \in BOOLEAN :
       IF fetchThrows
       THEN cropCatches("fetch")
       ELSE cropHandsOn(resultCanvas) /\ UNCHANGED errorToasts
  /\ UNCHANGED <<cvAvailable, isReady, detection, isMultiPageMode, cropState,
                 resultCanvas, pdResult, enhanceOutcome, consoleWarnings>>
  /\ UNCHANGED otherThanScanning

\* processImage settles: setMetadata with what classify returned, or its
\* own error toast and the metadata for manual entry; either way it ends in
\* showScreen('edit')
ProcessImageDone ==
  /\ callerPc["applyCropAndContinue"] = "awaitProcess"
  /\ \E analysisThrows \in BOOLEAN :
       /\ errorToasts' = IF analysisThrows
                         THEN errorToasts \cup {Toast("Analyse fehlgeschlagen: ", "analysis")}
                         ELSE errorToasts
       /\ currentMetadata' =
            IF analysisThrows
            THEN [category |-> "other", name |-> "Dokument", confidence |-> ConfZero]
            ELSE [category |-> "rechnung", name |-> "Rechnung",
                  confidence |-> Conf(4, 5)]
  /\ screen' = "edit"
  /\ callerPc' = [callerPc EXCEPT !["applyCropAndContinue"] = "idle"]
  /\ UNCHANGED <<cvAvailable, isReady, detection, isMultiPageMode, scannedPages,
                 currentImage, cropState, resultCanvas, pdResult, enhanceOutcome,
                 consoleWarnings>>
  /\ UNCHANGED otherThanProcessing

----------------------------------------------------------------------------
(* Loading of the OCR engine and of the ML model.  ocrService and classifier
   are singletons; preloadModels and processImage both start with
   "await ocrService.init(..)" and go on to "await classifier.init(..)", and
   either can be started while the other is waiting. *)

BackendCallers == {"preloadModels", "processImage"}

\* ocrService.init from "this.engine = this.createEngine(..)" to
\* "await initPromise": updateProgress(15), (25), engine.initialize(), setInterval
createAndInitialize(c) ==
  /\ engine' = c
  /\ enginesCreated' = enginesCreated \cup {c}
  /\ ocrLoadProgress' = 25
  /\ progressIntervals' = progressIntervals \cup {c}
  /\ ocrPc' = [ocrPc EXCEPT ![c] = "awaitInitialize"]

\* ocrService.init(onProgress), up to its first await or its return
OcrInit(c) ==
  /\ ocrPc[c] = "idle"
  /\ IF ocrIsReady /\ engine # "none"
     THEN /\ ocrPc' = [ocrPc EXCEPT ![c] = "resolved"]
          /\ UNCHANGED <<ocrIsReady, engine, createEngine, ocrLoadProgress,
                         progressIntervals, enginesCreated>>
     ELSE IF ~createEngine
     THEN /\ ocrLoadProgress' = 5
          /\ ocrPc' = [ocrPc EXCEPT ![c] = "awaitLibrary"]
          /\ UNCHANGED <<ocrIsReady, engine, createEngine, progressIntervals,
                         enginesCreated>>
     ELSE /\ createAndInitialize(c)
          /\ UNCHANGED <<ocrIsReady, createEngine>>
  /\ UNCHANGED otherThanOcr

\* loadOCRLibrary: the import resolves with a module that has an engine
OcrLibraryLoaded(c) ==
  /\ ocrPc[c] = "awaitLibrary"
  /\ createEngine' = TRUE
  /\ createAndInitialize(c)
  /\ UNCHANGED ocrIsReady
  /\ UNCHANGED otherThanOcr

\* the import rejects, or the module has no engine: loadOCRLibrary throws,
\* init's catch reports progress 0 and throws on
OcrLibraryFailed(c) ==
  /\ ocrPc[c] = "awaitLibrary"
  /\ ocrLoadProgress' = 0
  /\ ocrPc' = [ocrPc EXCEPT ![c] = "rejected"]
  /\ UNCHANGED <<ocrIsReady, engine, createEngine, progressIntervals,
                 enginesCreated>>
  /\ UNCHANGED otherThanOcr

\* a tick of progressInterval (every 500 ms) below 90 percent
OcrProgressTick(c) ==
  /\ c \in progressIntervals
  /\ ocrLoadProgress < 90
  /\ ocrLoadProgress' = ocrLoadProgress + 5
  /\ UNCHANGED <<ocrIsReady, engine, createEngine, progressIntervals,
                 enginesCreated, ocrPc>>
  /\ UNCHANGED otherThanOcr

\* engine.initialize() resolves: clearInterval, updateProgress(100), isReady
OcrInitialized(c) ==
  /\ ocrPc[c] = "awaitInitialize"
  /\ progressIntervals' = progressIntervals \ {c}
  /\ ocrLoadProgress' = 100
  /\ ocrIsReady' = TRUE
  /\ ocrPc' = [ocrPc EXCEPT ![c] = "resolved"]
  /\ UNCHANGED <<engine, createEngine, enginesCreated>>
  /\ UNCHANGED otherThanOcr

\* engine.initialize() rejects: the catch reports progress 0 and throws on
OcrInitializeFailed(c) ==
  /\ ocrPc[c] = "awaitInitialize"
  /\ ocrLoadProgress' = 0
  /\ ocrPc' = [ocrPc EXCEPT ![c] = "rejected"]
  /\ UNCHANGED <<ocrIsReady, engine, createEngine, progressIntervals,
                 enginesCreated>>
  /\ UNCHANGED otherThanOcr

\* classifier.init({useML, ..}) called by c once its ocrService.init has
\* resolved (in processImage the text has been recognized and its data
\* extracted by then), up to the await in initMLModel or to its return
ClassifierInit(c, useML) ==
  /\ ocrPc[c] = "resolved"
  /\ clsPc[c] = "idle"
  /\ c = "processImage" => analysisPc # "recognized"
  /\ IF clsIsReady
     THEN /\ clsPc' = [clsPc EXCEPT ![c] = "resolved"]
          /\ UNCHANGED <<clsIsReady, useMLModel>>
     ELSE /\ useMLModel' = useML
          /\ IF useML
             THEN /\ clsPc' = [clsPc EXCEPT ![c] = "awaitTransformers"]
                  /\ UNCHANGED clsIsReady
             ELSE /\ clsIsReady' = TRUE
                  /\ clsPc' = [clsPc EXCEPT ![c] = "resolved"]
  /\ UNCHANGED <<pipeline, pipelineLoads>>
  /\ UNCHANGED otherThanClassifier

\* initMLModel: Transformers.js is imported, pipeline(..) is called
TransformersImported(c) ==
  /\ clsPc[c] = "awaitTransformers"
  /\ pipelineLoads' = pipelineLoads \cup {c}
  /\ clsPc' = [clsPc EXCEPT ![c] = "awaitPipeline"]
  /\ UNCHANGED <<clsIsReady, useMLModel, pipeline>>
  /\ UNCHANGED otherThanClassifier

\* pipeline(..) resolves; initMLModel returns and init sets isReady
PipelineLoaded(c) ==
  /\ clsPc[c] = "awaitPipeline"
  /\ pipeline' = c
  /\ clsIsReady' = TRUE
  /\ clsPc' = [clsPc EXCEPT ![c] = "resolved"]
  /\ UNCHANGED <<useMLModel, pipelineLoads>>
  /\ UNCHANGED otherThanClassifier

\* the import or pipeline(..) rejects: initMLModel's catch warns and clears
\* useMLModel, init goes on to set isReady
MLModelFailed(c) ==
  /\ clsPc[c] \in {"awaitTransformers", "awaitPipeline"}
  /\ useMLModel' = FALSE
  /\ clsIsReady' = TRUE
  /\ clsPc' = [clsPc EXCEPT ![c] = "resolved"]
  /\ UNCHANGED <<pipeline, pipelineLoads>>
  /\ UNCHANGED otherThanClassifier

----------------------------------------------------------------------------
(* Text.  A text is a string; At(text, i) is its i-th character.  The regular
   expressions of extractStructuredData are matched the way the engine
   matches them: every operator below yields the positions at which a piece
   of a pattern can end, in the order in which backtracking tries them, and
   the first way through the whole pattern is the match. *)

At(text, i) == IF i >= 1 /\ i <= Len(text) THEN SubSeq(text, i, i) ELSE ""

lowerChar(ch) ==
  LET upper == <<"A", "B", "C", "D", "E", "F", "G", "H", "I", "J", "K", "L", "M",
                 "N", "O", "P", "Q", "R", "S", "T", "U", "V", "W", "X", "Y", "Z",
                 "Ä", "Ö", "Ü", "É">>
      lower == <<"a", "b", "c", "d", "e", "f", "g", "h", "i", "j", "k", "l", "m",
                 "n", "o", "p", "q", "r", "s", "t", "u", "v", "w", "x", "y", "z",
                 "ä", "ö", "ü", "é">>
  IN  IF \E k \in 1..Len(upper) : upper[k] = ch
      THEN lower[CHOOSE k \in 1..Len(upper) : upper[k] = ch]
      ELSE ch

RECURSIVE toLowerCase(_)
\* String.prototype.toLowerCase
toLowerCase(text) ==
  IF text = "" THEN ""
  ELSE lowerChar(At(text, 1)) \o toLowerCase(SubSeq(text, 2, Len(text)))

\* String.prototype.includes
includes(text, keyword) ==
  \E i \in 1..(Len(text) - Len(keyword) + 1) :
    SubSeq(text, i, i + Len(keyword) - 1) = keyword

\* a literal, under the i flag when ignoreCase: where it ends when it is at i
literal(text, i, word, ignoreCase) ==
  LET found == SubSeq(text, i, Min2(i + Len(word) - 1, Len(text)))
  IN  IF i + Len(word) - 1 <= Len(text) /\
         (found = word \/ (ignoreCase /\ toLowerCase(found) = toLowerCase(word)))
      THEN <<i + Len(word)>>
      ELSE <<>>

\* \d{atLeast,atMost}, greedy: the longest run first
digits(text, i, atLeast, atMost) ==
  LET Digit == {"0", "1", "2", "3", "4", "5", "6", "7", "8", "9"}
      run == CHOOSE n \in 0..atMost :
               /\ \A k \in 0..(n - 1) : At(text, i + k) \in Digit
               /\ n = atMost \/ At(text, i + n) \notin Digit
  IN  [k \in 1..Max2(run - atLeast + 1, 0) |-> i + run - (k - 1)]

\* \s*, greedy (\s as far as the texts here need it)
spaces(text, i) ==
  LET Whitespace == {" ", "\n", "\t"}
      run == CHOOSE n \in 0..Len(text) :
               /\ \A k \in 0..(n - 1) : At(text, i + k) \in Whitespace
               /\ At(text, i + n) \notin Whitespace
  IN  [k \in 1..(run + 1) |-> i + run - (k - 1)]

RECURSIVE Flatten(_, _)
Flatten(seqs, k) == IF k > Len(seqs) THEN <<>> ELSE seqs[k] \o Flatten(seqs, k + 1)

RECURSIVE oneOf(_, _, _, _, _)
\* a|b|.. : the alternatives in the order written
oneOf(text, i, words, ignoreCase, k) ==
  IF k > Len(words) THEN <<>>
  ELSE literal(text, i, words[k], ignoreCase) \o oneOf(text, i, words, ignoreCase, k + 1)

RECURSIVE matchesFrom(_, _, _)
\* the matches from position i on, endAt[j] being where a match starting at
\* j ends (0: none); each search starts where the match before it ended
matchesFrom(text, i, endAt) ==
  IF i > Len(text) THEN <<>>
  ELSE IF endAt[i] = 0 THEN matchesFrom(text, i + 1, endAt)
  ELSE <<SubSeq(text, i, endAt[i] - 1)>> \o matchesFrom(text, endAt[i], endAt)

RECURSIVE thousands(_, _)
\* (?:\.\d{3})*, greedy: one more group first
thousands(text, p) ==
  IF literal(text, p, ".", FALSE) # <<>> /\ digits(text, p + 1, 3, 3) # <<>>
  THEN thousands(text, p + 4) \o <<p>>
  ELSE <<p>>

\* where one piece of a pattern can end when it starts at p
pieceEnds(text, p, piece) ==
  CASE piece.kind = "literal" -> literal(text, p, piece.word, FALSE)
    [] piece.kind = "digits" -> digits(text, p, piece.atLeast, piece.atMost)
    [] piece.kind = "spaces" -> spaces(text, p)
    [] piece.kind = "oneOf" -> oneOf(text, p, piece.words, TRUE, 1)
    [] piece.kind = "thousands" -> thousands(text, p)
    \* (?:,\d{2})?, greedy: with the group first
    [] piece.kind = "decimals" ->
         IF literal(text, p, ",", FALSE) # <<>> /\ digits(text, p + 1, 2, 2) # <<>>
         THEN <<p + 3, p>>
         ELSE <<p>>

RECURSIVE patternEnds(_, _, _, _)
\* where the pieces k.. of pattern can end after each of the ends so far, in
\* backtracking order
patternEnds(text, ends, pattern, k) ==
  IF k > Len(pattern) THEN ends
  ELSE patternEnds(text,
                   Flatten([j \in 1..Len(ends) |-> pieceEnds(text, ends[j], pattern[k])], 1),
                   pattern, k + 1)

\* text.matchAll(pattern), each match[0]: the first way through the pattern
\* from a position is the match there
matchAll(text, pattern) ==
  matchesFrom(text, 1,
              [i \in 1..Len(text) |->
                 CHOOSE end \in {IF ends = <<>> THEN 0 ELSE ends[1] :
                                   ends \in {patternEnds(text, <<i>>, pattern, 1)}} : TRUE])

\* ocrService.extractStructuredData(text): data.dates and data.amounts
\* (data.keywords and data.sender are read by no step modelled here)
extractStructuredData(text) ==
  LET Dot == [kind |-> "literal", word |-> "."]
      Dash == [kind |-> "literal", word |-> "-"]
      D(m, n) == [kind |-> "digits", atLeast |-> m, atMost |-> n]
      Gap == [kind |-> "spaces"]
      datePatterns ==
        << \* (\d{1,2})\.(\d{1,2})\.(\d{4})
           <<D(1, 2), Dot, D(1, 2), Dot, D(4, 4)>>,
           \* (\d{1,2})\.(\d{1,2})\.(\d{2})
           <<D(1, 2), Dot, D(1, 2), Dot, D(2, 2)>>,
           \* (\d{4})-(\d{2})-(\d{2})
           <<D(4, 4), Dash, D(2, 2), Dash, D(2, 2)>>,
           \* (\d{1,2})\.\s*(Januar|..|Dezember)\s*(\d{4}) under the i flag
           <<D(1, 2), Dot, Gap,
             [kind |-> "oneOf",
              words |-> <<"Januar", "Februar", "März", "April", "Mai", "Juni", "Juli",
                          "August", "September", "Oktober", "November", "Dezember">>],
             Gap, D(4, 4)>> >>
      \* (\d{1,3}(?:\.\d{3})*(?:,\d{2})?)\s*(?:€|EUR|Euro) under the i flag
      amountPattern ==
        <<D(1, 3), [kind |-> "thousands"], [kind |-> "decimals"], Gap,
          [kind |-> "oneOf", words |-> <<"€", "EUR", "Euro">>]>>
  IN  [dates |-> Flatten([k \in 1..Len(datePatterns) |-> matchAll(text, datePatterns[k])], 1),
       amounts |-> matchAll(text, amountPattern)]

NoData == [dates |-> <<>>, amounts |-> <<>>]

\* processImage: ocrResult.structuredData = ocrService.extractStructuredData(..)
ExtractStructuredData ==
  /\ analysisPc = "recognized"
  /\ structuredData' = extractStructuredData(ocrText)
  /\ analysisPc' = "extracted"
  /\ UNCHANGED <<ocrText, keywordResult, mlResult, classification, alternatives>>
  /\ UNCHANGED clsVars
  /\ UNCHANGED otherThanAnalysis

----------------------------------------------------------------------------
(* The classifier: keywordClassify, mlClassify, classify, getAlternatives.
   Scores are kept in tenths, so that the base score 0.1 of 'other' is 1 and
   a strong keyword adds 30. *)

\* the keys of scores in insertion order, the order Object.entries walks them
CategoryOrder ==
  <<"fin-gehalt", "fin-steuer", "fin-bauspar", "fin-dkb", "fin-haspa",
    "fin-depot", "fin-bav", "fin-kreditkarte", "rechnung", "vertrag-erdgas",
    "vertrag-mobilfunk", "vertrag-internet", "vertrag-strom", "vers-auto",
    "vers-bu", "vers-rente", "vers-haftpflicht", "vers-hausrat",
    "vers-kranken", "vers-kuendigung", "vers-rechtsschutz", "vers-reise",
    "vers-risiko-jan", "vers-wohngebaeude", "vers-zahn", "medizin", "ehe",
    "kind-salome", "kind-david", "other">>

strongKeywords ==
  ("fin-gehalt" :>
      <<"gehaltsabrechnung", "entgeltabrechnung", "lohnabrechnung",
        "bruttolohn", "nettolohn", "arbeitgeber">>)
  @@ ("fin-steuer" :>
      <<"finanzamt", "steuerbescheid", "einkommensteuer", "steuernummer",
        "elster", "steuererklärung", "lohnsteuer">>)
  @@ ("fin-bauspar" :>
      <<"bausparkasse", "bausparvertrag", "schwäbisch hall", "wüstenrot",
        "bausparsumme">>)
  @@ ("fin-dkb" :>
      <<"deutsche kreditbank", "dkb">>)
  @@ ("fin-haspa" :>
      <<"hamburger sparkasse", "haspa">>)
  @@ ("fin-depot" :>
      <<"wertpapierdepot", "depot", "aktien", "wertpapier", "fonds", "etf",
        "dividende">>)
  @@ ("fin-bav" :>
      <<"betriebliche altersvorsorge", "direktversicherung", "pensionskasse",
        "unterstützungskasse">>)
  @@ ("fin-kreditkarte" :>
      <<"kreditkartenabrechnung", "visa", "mastercard", "kreditkarte">>)
  @@ ("rechnung" :>
      <<"rechnung", "rechnungsnummer", "rechnungsbetrag", "zahlungsziel",
        "invoice">>)
  @@ ("vertrag-erdgas" :>
      <<"erdgas", "gasvertrag", "gaslieferung", "stadtwerke">>)
  @@ ("vertrag-mobilfunk" :>
      <<"mobilfunk", "handyvertrag", "telekom", "vodafone", "o2", "congstar",
        "simkarte">>)
  @@ ("vertrag-internet" :>
      <<"internetvertrag", "dsl", "glasfaser", "router", "telefonanschluss">>)
  @@ ("vertrag-strom" :>
      <<"stromvertrag", "stromlieferung", "kwh", "stromzähler", "vattenfall",
        "eon">>)
  @@ ("vers-auto" :>
      <<"kfz-versicherung", "autoversicherung", "haftpflicht kfz",
        "teilkasko", "vollkasko", "e-scooter">>)
  @@ ("vers-bu" :>
      <<"berufsunfähigkeit", "bu-versicherung", "erwerbsminderung">>)
  @@ ("vers-rente" :>
      <<"deutsche rentenversicherung", "rentenversicherung", "rentenbescheid",
        "versicherungsnummer">>)
  @@ ("vers-haftpflicht" :>
      <<"privathaftpflicht", "haftpflichtversicherung", "personenschaden",
        "sachschaden">>)
  @@ ("vers-hausrat" :>
      <<"hausratversicherung", "hausrat", "einbruchdiebstahl", "brandschaden">>)
  @@ ("vers-kranken" :>
      <<"krankenversicherung", "krankenkasse", "tk", "aok", "barmer", "dak",
        "versichertenkarte">>)
  @@ ("vers-kuendigung" :>
      <<"kündigung", "kündigungsbestätigung", "versicherung gekündigt">>)
  @@ ("vers-rechtsschutz" :>
      <<"rechtsschutzversicherung", "rechtsschutz", "anwaltskosten">>)
  @@ ("vers-reise" :>
      <<"reiserücktritt", "reisekranken", "auslandskranken",
        "reiseversicherung">>)
  @@ ("vers-risiko-jan" :>
      <<"risikolebensversicherung", "todesfallleistung">>)
  @@ ("vers-wohngebaeude" :>
      <<"wohngebäudeversicherung", "gebäudeversicherung", "elementarschaden">>)
  @@ ("vers-zahn" :>
      <<"zahnzusatzversicherung", "zahnersatz", "zahnbehandlung">>)
  @@ ("medizin" :>
      <<"diagnose", "patient", "arztpraxis", "rezept", "befund",
        "krankenhaus", "überweisung">>)
  @@ ("ehe" :>
      <<"heiratsurkunde", "eheurkunde", "standesamt", "trauung",
        "eheschließung">>)
  @@ ("kind-salome" :>
      <<"salomé", "salome">>)
  @@ ("kind-david" :>
      <<"david">>)

mediumKeywords ==
  ("fin-gehalt" :>
      <<"gehalt", "lohn", "vergütung", "sozialversicherung">>)
  @@ ("fin-steuer" :>
      <<"steuer", "abgabe", "einkommen", "bescheid">>)
  @@ ("rechnung" :>
      <<"betrag", "mwst", "netto", "brutto", "fällig", "zahlen">>)
  @@ ("medizin" :>
      <<"arzt", "medizin", "behandlung", "gesundheit", "therapie", "praxis">>)

\* CONFIG.categories, the ids
ConfigCategoryIds ==
  {"fin-gehalt", "fin-steuer", "fin-bauspar", "fin-dkb", "fin-haspa",
   "fin-depot", "fin-bav", "fin-kreditkarte", "rechnung", "vertrag-erdgas",
   "vertrag-mobilfunk", "vertrag-internet", "vertrag-strom", "vers-auto",
   "vers-bu", "vers-rente", "vers-haftpflicht", "vers-hausrat",
   "vers-kranken", "vers-kuendigung", "vers-rechtsschutz", "vers-reise",
   "vers-risiko-jan", "vers-wohngebaeude", "vers-zahn", "medizin", "ehe",
   "kind-salome", "kind-david", "other"}

strongWeight == 3
mediumWeight == 1
Tenths == 10

\* how many of the category's keywords in table textLower.includes: each
\* keyword counts once
hits(textLower, table, category) ==
  IF category \in DOMAIN table
  THEN Cardinality({k \in 1..Len(table[category]) :
                      includes(textLower, table[category][k])})
  ELSE 0

\* a strong keyword worth 2
strongPointsOfTwo(textLower, category) ==
  2 * Tenths * hits(textLower, strongKeywords, category)

\* "scores[category] += 3" for every strong keyword found
strongPoints(textLower, category) ==
  strongWeight * Tenths * hits(textLower, strongKeywords, category)

\* "scores[category] += 1" for every medium keyword found
mediumPoints(textLower, category) ==
  mediumWeight * Tenths * hits(textLower, mediumKeywords, category)

\* if (structuredData.amounts.length > 0) scores['rechnung'] += 1
amountBonus(category, data) ==
  IF category = "rechnung" /\ Len(data.amounts) > 0 THEN Tenths ELSE 0

\* scores after the keyword loops and the bonus; 'other' starts at 0.1
keywordScores(textLower, data) ==
  [category \in {CategoryOrder[k] : k \in 1..Len(CategoryOrder)} |->
     (IF category = "other" THEN 1 ELSE 0) + strongPoints(textLower, category)
       + mediumPoints(textLower, category) + amountBonus(category, data)]

\* a comparison that lets a later category take a tie
beatsOrTies(score, bestScore) == score >= bestScore

\* if (score > bestScore)
beats(score, bestScore) == score > bestScore

\* one pass of the loop over Object.entries(scores)
bestStep(best, category, score) ==
  [category |-> IF beats(score, best.bestScore) THEN category ELSE best.category,
   bestScore |-> IF beats(score, best.bestScore) THEN score ELSE best.bestScore,
   totalScore |-> best.totalScore + score]

RECURSIVE bestOfFirstCategories(_, _)
\* bestCategory, bestScore and totalScore after the first k entries
bestOfFirstCategories(scores, k) ==
  IF k = 0 THEN [category |-> "other", bestScore |-> 0, totalScore |-> 0]
  ELSE CHOOSE next \in {bestStep(best, CategoryOrder[k], scores[CategoryOrder[k]]) :
                          best \in {bestOfFirstCategories(scores, k - 1)}} : TRUE

\* totalScore > 0 ? Math.min(bestScore / Math.max(totalScore * 0.5, 5), 1) : 0.1
keywordConfidence(bestScore, totalScore) ==
  IF totalScore > 0
  THEN Conf(Min2(2 * bestScore, Max2(totalScore, 10 * Tenths)),
            Max2(totalScore, 10 * Tenths))
  ELSE Conf(1, 10)

keywordClassify(text, data) ==
  CHOOSE result \in
    UNION {{[category |-> best.category,
             confidence |-> keywordConfidence(best.bestScore, best.totalScore),
             scores |-> scores,
             method |-> "keyword"] :
              best \in {bestOfFirstCategories(scores, Len(CategoryOrder))}} :
           scores \in {keywordScores(toLowerCase(text), data)}} : TRUE

\* a categoryMap that kept an id of the earlier category set
categoryMapOfOldIds ==
  <<"invoice", "fin-gehalt", "fin-steuer", "vers-haftpflicht", "medizin", "fin-dkb",
    "vertrag-strom">>

\* mlClassify: the ids the candidate labels stand for, by position
categoryMap ==
  <<"rechnung", "fin-gehalt", "fin-steuer", "vers-haftpflicht", "medizin", "fin-dkb",
    "vertrag-strom">>

\* a placeholder that claims full confidence
mlPlaceholderCertain(method) ==
  [category |-> "other", confidence |-> ConfOne, method |-> method]

\* what mlClassify returns when there is no pipeline, and from its catch
mlPlaceholder(method) == [category |-> "other", confidence |-> ConfZero, method |-> method]

\* mlClassify(text); outcome is what the pipeline did: it threw, or it put
\* the label at position topIndex of candidateLabels (0: a label that is not
\* in the list) first with score topScore.  The result has no scores
\* property; allScores, which nothing reads, is left out.
mlClassify(loaded, outcome) ==
  IF ~loaded THEN mlPlaceholder("ml-unavailable")
  ELSE IF outcome.threw THEN mlPlaceholder("ml-error")
  ELSE [category |-> IF outcome.topIndex >= 1 THEN categoryMap[outcome.topIndex]
                     ELSE "other",
        confidence |-> outcome.topScore,
        method |-> "ml"]

\* result.confidence < 0.6 && this.useMLModel && this.pipeline
mlWanted(confidence, useML, loaded) == ConfGT(Conf(3, 5), confidence) /\ useML /\ loaded

\* an ML result that also wins a tie
mlPreferredOnTie(mlConfidence, confidence) == ~ConfGT(confidence, mlConfidence)

\* mlResult.confidence > result.confidence
mlPreferred(mlConfidence, confidence) == ConfGT(mlConfidence, confidence)

\* Object.entries(scores).filter(([cat]) => cat !== category)
otherEntries(result) ==
  SelectSeq([k \in 1..Len(CategoryOrder) |->
               [category |-> CategoryOrder[k], score |-> result.scores[CategoryOrder[k]]]],
            LAMBDA entry : entry.category # result.category)

\* .sort((a, b) => b[1] - a[1]): where entry i comes to stand (the sort is stable)
descendingRank(entries, i) ==
  Cardinality({j \in 1..Len(entries) :
                 \/ entries[j].score > entries[i].score
                 \/ (entries[j].score = entries[i].score /\ j < i)})

RECURSIVE maxOfFirst(_, _)
\* the largest of the first k scores
maxOfFirst(scores, k) ==
  IF k = 0 THEN 0
  ELSE CHOOSE m \in {Max2(before, scores[CategoryOrder[k]]) :
                       before \in {maxOfFirst(scores, k - 1)}} : TRUE

\* getAlternatives(classificationResult); each score is divided by
\* Math.max(...Object.values(scores), 1)
getAlternatives(result) ==
  IF "scores" \notin DOMAIN result THEN <<>>
  ELSE CHOOSE top \in
         UNION {{[k \in 1..Min2(3, Len(entries)) |->
                    [category |->
                       entries[CHOOSE i \in 1..Len(entries) :
                                 descendingRank(entries, i) = k - 1].category,
                     score |->
                       Conf(entries[CHOOSE i \in 1..Len(entries) :
                                      descendingRank(entries, i) = k - 1].score,
                            divisor)]] :
                   divisor \in {Max2(maxOfFirst(result.scores, Len(CategoryOrder)),
                                     Tenths)}} :
                entries \in {otherEntries(result)}} : TRUE

NoClassification == [category |-> "none", confidence |-> ConfZero, method |-> "none"]

\* what the pipeline can do: throw, or report a top label with a top score
MlOutcomes ==
  {[threw |-> TRUE, topIndex |-> 0, topScore |-> ConfZero]} \cup
  {[threw |-> FALSE, topIndex |-> i, topScore |-> s] :
     i \in 0..Len(categoryMap),
     s \in {Conf(1, 50), Conf(1, 5), Conf(2, 5), Conf(9, 10)}}

\* processImage: "await classifier.classify(ocrResult)" up to the await of
\* mlClassify, or to its return when the ML stage is not entered
Classify ==
  /\ analysisPc = "extracted"
  /\ clsPc["processImage"] = "resolved"
  /\ \E result \in {keywordClassify(ocrText, structuredData)} :
       /\ keywordResult' = result
       /\ IF mlWanted(result.confidence, useMLModel, pipeline # "none")
          THEN /\ analysisPc' = "awaitML"
               /\ UNCHANGED classification
          ELSE /\ analysisPc' = "classified"
               /\ classification' = result
  /\ UNCHANGED <<ocrText, structuredData, mlResult, alternatives>>
  /\ UNCHANGED clsVars
  /\ UNCHANGED otherThanAnalysis

\* mlClassify settles and classify returns
MlSettles ==
  /\ analysisPc = "awaitML"
  /\ \E outcome \in MlOutcomes :
       \E ml \in {mlClassify(pipeline # "none", outcome)} :
         /\ mlResult' = ml
         /\ classification' =
              IF mlPreferred(ml.confidence, keywordResult.confidence)
              THEN ml ELSE keywordResult
  /\ analysisPc' = "classified"
  /\ UNCHANGED <<ocrText, structuredData, keywordResult, alternatives>>
  /\ UNCHANGED clsVars
  /\ UNCHANGED otherThanAnalysis

\* CONFIG.classifier.showReviewIfBelow
showReviewIfBelow == Conf(3, 5)

\* processImage: "if (classification.confidence < showReviewIfBelow)
\* alternatives = classifier.getAlternatives(classification)", then the edit
\* screen
GetAlternatives ==
  /\ analysisPc = "classified"
  /\ alternatives' = IF ConfGT(showReviewIfBelow, classification.confidence)
                     THEN getAlternatives(classification)
                     ELSE alternatives
  /\ analysisPc' = "reviewed"
  /\ UNCHANGED <<ocrText, structuredData, keywordResult, mlResult, classification>>
  /\ UNCHANGED clsVars
  /\ UNCHANGED otherThanAnalysis

----------------------------------------------------------------------------
(* extractBestDate.  A Date is modelled by its local calendar day, counted
   in days from 1970-01-01, and a time by hours of local time; the local
   zone is utcOffset hours ahead of UTC. *)

DigitChars == <<"0", "1", "2", "3", "4", "5", "6", "7", "8", "9">>

RECURSIVE parseInt(_)
\* parseInt of a string of digits
parseInt(digitString) ==
  IF digitString = "" THEN 0
  ELSE 10 * parseInt(SubSeq(digitString, 1, Len(digitString) - 1))
         + (CHOOSE v \in 0..9 :
              DigitChars[v + 1] = At(digitString, Len(digitString)))

RECURSIVE firstWay(_, _, _, _)
\* where each of the pieces k.. of pattern ends on the first way through the
\* pattern from p, which exists
firstWay(text, p, pattern, k) ==
  IF k > Len(pattern) THEN <<>>
  ELSE LET ends == pieceEnds(text, p, pattern[k])
           first == CHOOSE j \in 1..Len(ends) :
                      /\ patternEnds(text, <<ends[j]>>, pattern, k + 1) # <<>>
                      /\ \A i \in 1..(j - 1) :
                           patternEnds(text, <<ends[i]>>, pattern, k + 1) = <<>>
       IN  <<ends[first]>> \o firstWay(text, ends[first], pattern, k + 1)

\* dateStr.match(/(\d{1,2})\.(\d{1,2})\.(\d{2,4})/): the three groups of the
\* first match, or no match
matchDate(dateStr) ==
  LET D(m, n) == [kind |-> "digits", atLeast |-> m, atMost |-> n]
      Dot == [kind |-> "literal", word |-> "."]
      pattern == <<D(1, 2), Dot, D(1, 2), Dot, D(2, 4)>>
      starts == {i \in 1..Len(dateStr) : patternEnds(dateStr, <<i>>, pattern, 1) # <<>>}
      start == CHOOSE i \in starts : \A o \in starts : i <= o
  IN  IF starts = {} THEN [found |-> FALSE, groups |-> <<>>]
      ELSE CHOOSE m \in
             {[found |-> TRUE,
               groups |-> <<SubSeq(dateStr, start, way[1] - 1),
                            SubSeq(dateStr, way[2], way[3] - 1),
                            SubSeq(dateStr, way[4], way[5] - 1)>>] :
                way \in {firstWay(dateStr, start, pattern, 1)}} : TRUE

\* new Date(year, monthIndex, day) for year >= 100: the day of the local
\* calendar, months and days beyond their range carried over
newDate(year, monthIndex, day) ==
  LET y1 == year + (monthIndex \div 12)
      m == (monthIndex % 12) + 1
      y == IF m <= 2 THEN y1 - 1 ELSE y1
      era == y \div 400
      yoe == y - era * 400
      doy == ((153 * (IF m > 2 THEN m - 3 ELSE m + 9) + 2) \div 5)
      doe == yoe * 365 + (yoe \div 4) - (yoe \div 100) + doy
  IN  era * 146097 + doe - 719468 + (day - 1)

\* year > 50 ? 1900 : 2000
century(year) == IF year > 50 THEN 1900 ELSE 2000

\* the body of the loop up to "parsed = new Date(..)"
parseCandidate(dateStr) ==
  CHOOSE candidate \in
    {IF ~match.found
     THEN [matched |-> FALSE, year |-> 0, month |-> 0, day |-> 0, parsed |-> 0]
     ELSE CHOOSE c \in
            {[matched |-> TRUE, year |-> year, month |-> parseInt(match.groups[2]),
              day |-> parseInt(match.groups[1]),
              parsed |-> newDate(year, parseInt(match.groups[2]) - 1,
                                 parseInt(match.groups[1]))] :
               year \in {IF parseInt(match.groups[3]) < 100
                         THEN parseInt(match.groups[3])
                                + century(parseInt(match.groups[3]))
                         ELSE parseInt(match.groups[3])}} : TRUE :
       match \in {matchDate(dateStr)}} : TRUE

\* 2 * 365 * 24 * 60 * 60 * 1000 ms, in hours
twoYears == 2 * 365 * 24

\* Math.abs(today - parsed), in hours: parsed is midnight of its day
diffTo(now, candidate) ==
  IF now >= 24 * candidate.parsed THEN now - 24 * candidate.parsed
  ELSE 24 * candidate.parsed - now

RECURSIVE bestOfFirstDates(_, _, _)
\* bestDate and bestDiff after the first k candidates
bestOfFirstDates(candidates, now, k) ==
  IF k = 0 THEN [found |-> FALSE, parsed |-> 0, diff |-> 0]
  ELSE CHOOSE best \in
         {IF /\ candidates[k].matched
             /\ diffTo(now, candidates[k]) < twoYears
             /\ (~before.found \/ diffTo(now, candidates[k]) < before.diff)
          THEN [found |-> TRUE, parsed |-> candidates[k].parsed,
                diff |-> diffTo(now, candidates[k])]
          ELSE before :
            before \in {bestOfFirstDates(candidates, now, k - 1)}} : TRUE

\* date.toISOString().split('T')[0] for local midnight of dayNumber: the
\* calendar day of that instant in UTC, as YYYY-MM-DD
toISOString(dayNumber, offset) ==
  LET z == ((24 * dayNumber - offset) \div 24) + 719468
      era == z \div 146097
      doe == z - era * 146097
      yoe == (doe - (doe \div 1460) + (doe \div 36524) - (doe \div 146096)) \div 365
      doy == doe - (365 * yoe + (yoe \div 4) - (yoe \div 100))
      mp == (5 * doy + 2) \div 153
      d == doy - ((153 * mp + 2) \div 5) + 1
      m == IF mp < 10 THEN mp + 3 ELSE mp - 9
      y == IF m <= 2 THEN yoe + era * 400 + 1 ELSE yoe + era * 400
      Two(n) == DigitChars[(n \div 10) + 1] \o DigitChars[(n % 10) + 1]
  IN  Two(y \div 100) \o Two(y % 100) \o "-" \o Two(m) \o "-" \o Two(d)

\* extractBestDate(dates) called at the time now; null is "null"
extractBestDate(dateStrings, now, offset) ==
  IF dateStrings = <<>> THEN "null"
  ELSE CHOOSE result \in
         {IF best.found THEN toISOString(best.parsed, offset) ELSE "null" :
            best \in {bestOfFirstDates([k \in 1..Len(dateStrings) |->
                                          parseCandidate(dateStrings[k])],
                                       now, Len(dateStrings))}} : TRUE

\* classify: "result.date = this.extractBestDate(structuredData.dates)";
\* parsedDates keeps what the loop parsed
ExtractBestDate ==
  /\ bestDate = "pending"
  /\ parsedDates' = [k \in 1..Len(dates) |-> parseCandidate(dates[k])]
  /\ bestDate' = extractBestDate(dates, today, utcOffset)
  /\ UNCHANGED <<today, utcOffset, dates>>
  /\ UNCHANGED otherThanDates

----------------------------------------------------------------------------
(* The camera screen: startScan, the detectFrame loop of startAutoDetection,
   captureImage, and the handlers that leave the screen.  Every handler and
   every continuation after an await is one step of the event loop.  The
   statements of detectFrame's try block do not throw (detectDocument
   catches its own errors), so its empty catch is never entered. *)

requiredStableFrames == 15   \* detectionState.requiredStableFrames
stabilityThreshold == 10     \* isCornersStable: threshold, in pixels of the video
detectScale == 2             \* detectFrame: c.x / scale with scale = 0.5

NoMetadata == [category |-> "null", name |-> "null", confidence |-> ConfZero]

\* let detectionState = {isRunning: false, lastCorners: null, stableFrames: 0,
\* requiredStableFrames: 15, animationFrame: null}; animationFrame is whether
\* an id is stored, <<>> is null
DetectionStateAtLoad ==
  [isRunning |-> FALSE, lastCorners |-> <<>>, stableFrames |-> 0,
   animationFrame |-> FALSE]

\* latest: the callback whose id detectionState.animationFrame holds is still
\* to run; earlier: the callbacks of older requests that are still to run
NoFrameRequests == [latest |-> FALSE, earlier |-> 0]

NoFrame == [corners |-> <<>>, confidence |-> ConfZero]

\* corners missing count as stable
isCornersStableFromNull(corners, lastCorners) ==
  IF lastCorners = <<>> THEN TRUE
  ELSE \A i \in 1..4 :
         /\ corners[i].x - lastCorners[i].x \in (0 - stabilityThreshold)..stabilityThreshold
         /\ corners[i].y - lastCorners[i].y \in (0 - stabilityThreshold)..stabilityThreshold

isCornersStable(corners, lastCorners) ==
  IF lastCorners = <<>> THEN FALSE
  ELSE \A i \in 1..4 :
         /\ corners[i].x - lastCorners[i].x \in (0 - stabilityThreshold)..stabilityThreshold
         /\ corners[i].y - lastCorners[i].y \in (0 - stabilityThreshold)..stabilityThreshold

\* stopAutoDetection: isRunning = false, and the callback of the stored id is
\* cancelled when an id is stored
stopAutoDetection(ds, requests) ==
  [detectionState |-> [ds EXCEPT !.isRunning = FALSE, !.animationFrame = FALSE],
   frameRequests |-> IF ds.animationFrame
                     THEN [requests EXCEPT !.latest = FALSE]
                     ELSE requests]

\* detectionState.animationFrame = requestAnimationFrame(detectFrame): the
\* callback of the id stored before stays requested
requestAnimationFrame(requests) ==
  [latest |-> TRUE,
   earlier |-> requests.earlier + (IF requests.latest THEN 1 ELSE 0)]

\* resetForNewScan: updateState({currentImage: null, currentMetadata: null,
\* isMultiPageMode: false, scannedPages: []})
resetForNewScan ==
  /\ currentImage' = NoImage
  /\ currentMetadata' = NoMetadata
  /\ isMultiPageMode' = FALSE
  /\ scannedPages' = <<>>

\* what is still to run: startScan calls at an await, detectFrame callbacks,
\* capture timeouts and captureImage calls at their await
inFlight ==
  scanPc.awaitCamera + scanPc.awaitScanner + frameRequests.earlier +
  (IF frameRequests.latest THEN 1 ELSE 0) + captureTimers + capturing

\* the click on btnStartScan with Dropbox connected: startScan(false) up to
\* "await camera.start()"
StartScan ==
  /\ screen = "home"
  /\ inFlight < MaxInFlight
  /\ resetForNewScan
  /\ screen' = "camera"
  /\ scanPc' = [scanPc EXCEPT !.awaitCamera = @ + 1]
  /\ captureCalls' = <<>>
  /\ UNCHANGED <<detectionState, frameRequests, frame, captureTimers, capturing,
                 cameraOn, cropState, errorToasts>>
  /\ UNCHANGED otherThanCamera

\* camera.start() settles: on to "await scanner.init()", or the outer catch
CameraStarted ==
  /\ scanPc.awaitCamera > 0
  /\ \E started \in BOOLEAN :
       IF started
       THEN /\ cameraOn' = TRUE
            /\ scanPc' = [scanPc EXCEPT !.awaitCamera = @ - 1, !.awaitScanner = @ + 1]
            /\ UNCHANGED <<screen, errorToasts>>
       ELSE /\ scanPc' = [scanPc EXCEPT !.awaitCamera = @ - 1]
            /\ errorToasts' = errorToasts \cup {Toast("", "camera")}
            /\ screen' = "home"
            /\ UNCHANGED cameraOn
  /\ UNCHANGED <<detectionState, frameRequests, frame, captureTimers, capturing,
                 captureCalls, cropState, currentImage,
                 currentMetadata, isMultiPageMode, scannedPages>>
  /\ UNCHANGED otherThanCamera

\* scanner.init() settles: startAutoDetection up to its requestAnimationFrame,
\* or the inner catch, which leaves the capture to the user
ScannerInited ==
  /\ scanPc.awaitScanner > 0
  /\ scanPc' = [scanPc EXCEPT !.awaitScanner = @ - 1]
  /\ \E ready \in BOOLEAN :
       IF ready
       THEN /\ detectionState' =
                 [isRunning |-> TRUE, lastCorners |-> <<>>, stableFrames |-> 0,
                  animationFrame |-> TRUE]
            /\ frameRequests' = requestAnimationFrame(frameRequests)
       ELSE UNCHANGED <<detectionState, frameRequests>>
  /\ UNCHANGED <<frame, captureTimers, capturing, cameraOn, captureCalls, screen, cropState, errorToasts, currentImage,
                 currentMetadata, isMultiPageMode, scannedPages>>
  /\ UNCHANGED otherThanCamera

\* what detectDocument can return for a video frame at half scale: nothing
\* found, a document, the document moved by 5 and by 6 pixels of the canvas
FrameDetections ==
  LET doc(dx, dy) == <<Pt(10 + dx, 10 + dy), Pt(90 + dx, 12 + dy),
                       Pt(92 + dx, 130 + dy), Pt(8 + dx, 128 + dy)>>
  IN  {[corners |-> getDefaultCorners(100, 140), confidence |-> ConfZero],
       [corners |-> doc(0, 0), confidence |-> Conf(4, 5)],
       [corners |-> doc(5, 0), confidence |-> Conf(4, 5)],
       [corners |-> doc(0, 6), confidence |-> Conf(2, 5)]}

\* one run of detectFrame, as the callback of the stored id or of an older one
DetectFrame(latest, detected) ==
  /\ IF latest THEN frameRequests.latest ELSE frameRequests.earlier > 0
  /\ LET requests == IF latest THEN [frameRequests EXCEPT !.latest = FALSE]
                     ELSE [frameRequests EXCEPT !.earlier = @ - 1]
         corners == [i \in 1..4 |-> Pt(detected.corners[i].x * detectScale,
                                       detected.corners[i].y * detectScale)]
         counted == detectionState.stableFrames + 1
         again(ds) ==
           /\ detectionState' = [ds EXCEPT !.animationFrame = TRUE]
           /\ frameRequests' = requestAnimationFrame(requests)
           /\ UNCHANGED captureTimers
     IN  IF ~detectionState.isRunning \/ screen # "camera"
         THEN /\ frameRequests' = requests
              /\ UNCHANGED <<detectionState, frame, captureTimers>>
         ELSE /\ frame' = detected
              /\ IF ConfGT(detected.confidence, ConfThreshold)
                 THEN IF isCornersStable(corners, detectionState.lastCorners)
                      THEN IF counted >= requiredStableFrames
                           THEN LET stopped ==
                                      stopAutoDetection(
                                        [detectionState EXCEPT !.stableFrames = counted],
                                        requests)
                                IN  /\ detectionState' = stopped.detectionState
                                    /\ frameRequests' = stopped.frameRequests
                                    /\ captureTimers' = captureTimers + 1
                           ELSE again([detectionState EXCEPT
                                         !.stableFrames = counted,
                                         !.lastCorners = corners])
                      ELSE again([detectionState EXCEPT
                                    !.stableFrames = 0, !.lastCorners = corners])
                 ELSE again([detectionState EXCEPT
                               !.stableFrames = 0, !.lastCorners = <<>>])
  /\ UNCHANGED <<capturing, cameraOn, scanPc, captureCalls, screen,
                 cropState, errorToasts, currentImage, currentMetadata,
                 isMultiPageMode, scannedPages>>
  /\ UNCHANGED otherThanCamera

\* captureImage up to "await camera.capture()"
captureImage(trigger) ==
  /\ Len(captureCalls) < MaxCaptures
  /\ LET stopped == stopAutoDetection(detectionState, frameRequests)
     IN  /\ detectionState' = stopped.detectionState
         /\ frameRequests' = stopped.frameRequests
  /\ capturing' = capturing + 1
  /\ captureCalls' = Append(captureCalls, [by |-> trigger, screen |-> screen])
  /\ UNCHANGED <<frame, cameraOn, scanPc, screen, cropState,
                 errorToasts, currentImage, currentMetadata, isMultiPageMode,
                 scannedPages>>
  /\ UNCHANGED otherThanCamera

\* the click on btnCapture, which the camera screen shows, and the space key,
\* which handleKeyboard passes on while state.screen is 'camera'
ManualCapture ==
  /\ screen = "camera"
  /\ captureImage("user")
  /\ UNCHANGED captureTimers

\* setTimeout(() => captureImage(), 300) fires
CaptureTimerFires ==
  /\ captureTimers > 0
  /\ captureTimers' = captureTimers - 1
  /\ captureImage("timer")

\* the image a capture hands to showCropScreen
CapturedImage == [width |-> 80, height |-> 120, corners |-> <<>>]

\* camera.capture() settles: camera.stop() and showCropScreen up to
\* showScreen('crop'), or the catch with its toast
CaptureSettles ==
  /\ capturing > 0
  /\ capturing' = capturing - 1
  /\ \E captured \in BOOLEAN :
       IF captured
       THEN /\ cameraOn' = FALSE
            /\ cropState' = CapturedImage
            /\ screen' = "crop"
            /\ UNCHANGED errorToasts
       ELSE /\ errorToasts' = errorToasts \cup {Toast("Fehler beim Aufnehmen: ", "capture")}
            /\ UNCHANGED <<cameraOn, cropState, screen>>
  /\ UNCHANGED <<detectionState, frameRequests, frame, captureTimers, scanPc,
                 captureCalls, currentImage, currentMetadata,
                 isMultiPageMode, scannedPages>>
  /\ UNCHANGED otherThanCamera

\* the click on btnCameraBack
CameraBack ==
  /\ screen = "camera"
  /\ LET stopped == stopAutoDetection(detectionState, frameRequests)
     IN  /\ detectionState' = stopped.detectionState
         /\ frameRequests' = stopped.frameRequests
  /\ cameraOn' = FALSE
  /\ screen' = "home"
  /\ UNCHANGED <<frame, captureTimers, capturing, scanPc, captureCalls, cropState, errorToasts, currentImage,
                 currentMetadata, isMultiPageMode, scannedPages>>
  /\ UNCHANGED otherThanCamera

\* the click on the logo, on any screen
LogoClick ==
  /\ cameraOn' = FALSE
  /\ resetForNewScan
  /\ screen' = "home"
  /\ UNCHANGED <<detectionState, frameRequests, frame, captureTimers, capturing,
                 scanPc, captureCalls, cropState, errorToasts>>
  /\ UNCHANGED otherThanCamera

\* the click on btnCropBack
CropBack ==
  /\ screen = "crop"
  /\ IF isMultiPageMode /\ Len(scannedPages) > 0
     THEN /\ screen' = "multipage"
          /\ UNCHANGED <<currentImage, currentMetadata, isMultiPageMode, scannedPages>>
     ELSE /\ resetForNewScan
          /\ screen' = "home"
  /\ UNCHANGED <<cameraVars, cropState, errorToasts>>
  /\ UNCHANGED otherThanCamera

\* the click on btnMultipageCancel or on btnEditBack, each on its screen
BackToHome(from) ==
  /\ screen = from
  /\ resetForNewScan
  /\ screen' = "home"
  /\ UNCHANGED <<cameraVars, cropState, errorToasts>>
  /\ UNCHANGED otherThanCamera

----------------------------------------------------------------------------
(* DropboxAPI.apiRequest and refreshAccessToken.  A token is held or not;
   tokenExpiry is "null", "soon" (Date.now() > tokenExpiry - 60000) or
   "later".  Every await of a fetch is a step of its own; an operator takes
   the object and the call as they stand and gives both as it leaves them. *)

NoApiCall ==
  [pc |-> "idle", refreshFor |-> "none", fetches |-> 0, refreshes |-> 0,
   retries |-> 0, result |-> "none"]

\* the promise of apiRequest settles
settled(api, call, outcome) ==
  [api |-> api, call |-> [call EXCEPT !.pc = "done", !.result = outcome]]

\* fetch(url, ..) is called and awaited
fetchRequest(api, call) ==
  [api |-> api, call |-> [call EXCEPT !.pc = "awaitFetch", !.fetches = @ + 1]]

\* refreshAccessToken up to "await fetch(CONFIG.dropbox.tokenEndpoint, ..)"
refreshAccessToken(api, call, reason) ==
  IF ~api.refreshToken
  THEN settled(api, call, "No refresh token available")
  ELSE IF ~api.clientId
  THEN settled(api, call, "Dropbox Client ID nicht konfiguriert")
  ELSE [api |-> api,
        call |-> [call EXCEPT !.pc = "awaitRefresh", !.refreshFor = reason]]

\* apiRequest from its first statement to its first await
apiRequest(api, call) ==
  IF ~api.accessToken
  THEN settled(api, call, "Not authenticated")
  ELSE IF api.tokenExpiry = "soon"
  THEN refreshAccessToken(api, call, "expiry")
  ELSE fetchRequest(api, call)

\* a caller calls dropboxAPI.apiRequest(endpoint, options)
ApiRequest ==
  /\ apiCall.pc = "idle"
  /\ \E r \in {apiRequest(dropboxAPI, apiCall)} :
       dropboxAPI' = r.api /\ apiCall' = r.call
  /\ UNCHANGED otherThanDropbox

\* the token endpoint answers, or the fetch rejects: the rest of
\* refreshAccessToken, and of apiRequest up to its next await
RefreshSettles ==
  /\ apiCall.pc = "awaitRefresh"
  /\ apiCall.fetches < MaxFetches
  /\ \E answer \in {"rejected", "not ok", "ok"}, expiresIn \in {"none", "short", "long"} :
       LET refreshed ==
             [dropboxAPI EXCEPT
                !.accessToken = TRUE,
                !.tokenExpiry = CASE expiresIn = "none" -> "null"
                                  [] expiresIn = "short" -> "soon"
                                  [] expiresIn = "long" -> "later"]
           cleared ==
             [dropboxAPI EXCEPT !.accessToken = FALSE, !.refreshToken = FALSE,
                                !.tokenExpiry = "null"]
           counted == [apiCall EXCEPT !.refreshes = @ + 1]
           r == CASE answer = "rejected" -> settled(dropboxAPI, apiCall, "fetch failed")
                  [] answer = "not ok" ->
                       settled(cleared, apiCall,
                               "Session expired, please reconnect to Dropbox")
                  [] apiCall.refreshFor = "expiry" -> fetchRequest(refreshed, counted)
                  [] OTHER -> apiRequest(refreshed, [counted EXCEPT !.retries = @ + 1])
       IN  dropboxAPI' = r.api /\ apiCall' = r.call
  /\ UNCHANGED otherThanDropbox

\* the API answers, or the fetch rejects
FetchSettles ==
  /\ apiCall.pc = "awaitFetch"
  /\ \E answer \in {"rejected", "200", "401", "409"} :
       LET r == CASE answer = "rejected" -> settled(dropboxAPI, apiCall, "fetch failed")
                  [] answer = "401" -> refreshAccessToken(dropboxAPI, apiCall, "401")
                  [] OTHER -> settled(dropboxAPI, apiCall, answer)
       IN  dropboxAPI' = r.api /\ apiCall' = r.call
  /\ UNCHANGED otherThanDropbox

\* time passes: the token comes within a minute of its expiry
TokenAges ==
  /\ dropboxAPI.tokenExpiry = "later"
  /\ dropboxAPI' = [dropboxAPI EXCEPT !.tokenExpiry = "soon"]
  /\ UNCHANGED apiCall
  /\ UNCHANGED otherThanDropbox

----------------------------------------------------------------------------
(* Each specification below drives one part of the program while the
   variables of the other parts rest at these values *)

IdleOrder == ocIn = <<>> /\ ocOut = <<>> /\ ocCalled = FALSE

IdleQuad ==
  fbContours = <<>> /\ fbImageArea = 0 /\ fbResult = NoQuad /\ fbCalled = FALSE

IdleDetect ==
  /\ cvAvailable = FALSE
  /\ isReady = FALSE
  /\ callerPc = [c \in ScannerUsers |-> "idle"]
  /\ detection = NoDetection

IdleWarp == ptSource = [width |-> 0, height |-> 0] /\ ptCorners = <<>> /\ ptOut = NoCanvas

IdlePipe ==
  /\ screen = "home"
  /\ isMultiPageMode = FALSE
  /\ scannedPages = <<>>
  /\ currentImage = NoImage
  /\ cropState = NoCrop
  /\ resultCanvas = NoImage
  /\ pdResult = NoResult
  /\ enhanceOutcome = [c \in {"applyCropAndContinue", "processDocument"} |-> "none"]
  /\ consoleWarnings = {}
  /\ errorToasts = {}

IdleOcr ==
  /\ ocrIsReady = FALSE
  /\ engine = "none"
  /\ createEngine = FALSE
  /\ ocrLoadProgress = 0
  /\ progressIntervals = {}
  /\ enginesCreated = {}
  /\ ocrPc = [c \in BackendCallers |-> "idle"]

IdleClassifier ==
  /\ clsIsReady = FALSE
  /\ useMLModel = FALSE
  /\ pipeline = "none"
  /\ pipelineLoads = {}
  /\ clsPc = [c \in BackendCallers |-> "idle"]

IdleBackends == IdleOcr /\ IdleClassifier

IdleAnalysis ==
  /\ ocrText = ""
  /\ structuredData = NoData
  /\ keywordResult = NoClassification
  /\ mlResult = NoClassification
  /\ classification = NoClassification
  /\ alternatives = <<>>
  /\ analysisPc = "idle"

IdleDates ==
  /\ today = 0
  /\ utcOffset = 0
  /\ dates = <<>>
  /\ parsedDates = <<>>
  /\ bestDate = "pending"

IdleMetadata == currentMetadata = NoMetadata

IdleCamera ==
  /\ detectionState = DetectionStateAtLoad
  /\ frameRequests = NoFrameRequests
  /\ frame = NoFrame
  /\ captureTimers = 0
  /\ capturing = 0
  /\ cameraOn = FALSE
  /\ scanPc = [awaitCamera |-> 0, awaitScanner |-> 0]
  /\ captureCalls = <<>>

IdleDropbox ==
  /\ dropboxAPI = [accessToken |-> FALSE, refreshToken |-> FALSE,
                   tokenExpiry |-> "null", clientId |-> FALSE]
  /\ apiCall = NoApiCall

IdleSide == IdleDates /\ IdleMetadata /\ IdleCamera /\ IdleDropbox

IdleMain ==
  /\ IdleOrder
  /\ IdleQuad
  /\ IdleDetect
  /\ IdleWarp
  /\ IdlePipe
  /\ IdleBackends
  /\ IdleAnalysis

----------------------------------------------------------------------------
(* Specification of findBestQuadrilateral over lists of pool contours *)

InitQuad ==
  /\ fbImageArea \in QuadImageAreas
  /\ fbContours \in SeqsUpTo(ContourPool(fbImageArea), MaxContours)
  /\ fbResult = NoQuad
  /\ fbCalled = FALSE
  /\ IdleOrder
  /\ IdleDetect
  /\ IdleWarp
  /\ IdlePipe
  /\ IdleBackends
  /\ IdleAnalysis
  /\ IdleSide

CallFindBestQuadrilateral ==
  /\ ~fbCalled
  /\ fbResult' = findBestQuadrilateral(fbContours, fbImageArea)
  /\ fbCalled' = TRUE
  /\ UNCHANGED <<fbContours, fbImageArea>>
  /\ UNCHANGED otherThanQuad

NextQuad == CallFindBestQuadrilateral

SpecQuad == InitQuad /\ [][NextQuad]_vars

----------------------------------------------------------------------------
(* Specification of orderCorners over every 4-point input of the grid *)

InitOrder ==
  /\ ocIn \in [1..4 -> Grid]
  /\ ocOut = <<>>
  /\ ocCalled = FALSE
  /\ IdleQuad
  /\ IdleDetect
  /\ IdleWarp
  /\ IdlePipe
  /\ IdleBackends
  /\ IdleAnalysis
  /\ IdleSide

CallOrderCorners ==
  /\ ~ocCalled
  /\ ocOut' = orderCorners(ocIn)
  /\ ocCalled' = TRUE
  /\ UNCHANGED ocIn
  /\ UNCHANGED otherThanOrder

NextOrder == CallOrderCorners

SpecOrder == InitOrder /\ [][NextOrder]_vars

----------------------------------------------------------------------------
(* Specification of the scanner: init and detectDocument under its callers *)

InitDetect ==
  /\ cvAvailable \in BOOLEAN
  /\ isReady = FALSE
  /\ callerPc = [c \in ScannerUsers |-> "idle"]
  /\ detection = NoDetection
  /\ IdleOrder
  /\ IdleQuad
  /\ IdleWarp
  /\ IdlePipe
  /\ IdleBackends
  /\ IdleAnalysis
  /\ IdleSide

NextDetect ==
  \/ CvLoads
  \/ StopAutoDetection
  \/ \E c \in Callers : CallInit(c)
  \/ \E c \in Callers : InitPollTick(c)
  \/ \E c \in Callers : InitTimeout(c)
  \/ \E c \in Callers : HandleInitFailure(c)
  \/ \E c \in Callers : Detect(c)

SpecDetect == InitDetect /\ [][NextDetect]_vars

----------------------------------------------------------------------------
(* Specification of perspectiveTransform on an initialized scanner *)

InitWarp ==
  /\ ptSource \in WarpSources
  /\ ptCorners \in WarpCorners(ptSource)
  /\ ptOut = NoCanvas
  /\ IdleOrder
  /\ IdleQuad
  /\ IdleDetect
  /\ IdlePipe
  /\ IdleBackends
  /\ IdleAnalysis
  /\ IdleSide

CallPerspectiveTransform ==
  /\ ptOut = NoCanvas
  /\ ptOut' = perspectiveTransform(TRUE, ptSource, ptCorners)
  /\ UNCHANGED <<ptSource, ptCorners>>
  /\ UNCHANGED otherThanWarp

NextWarp == CallPerspectiveTransform

SpecWarp == InitWarp /\ [][NextWarp]_vars

----------------------------------------------------------------------------
(* Specification of the enhancement step: applyCropAndContinue on the crop
   screen, and processDocument *)

EnhanceCallers == {"applyCropAndContinue", "processDocument"}

InitCrop ==
  /\ cvAvailable \in BOOLEAN
  /\ isReady \in BOOLEAN
  /\ isReady => cvAvailable
  /\ callerPc = [c \in ScannerUsers |-> "idle"]
  /\ detection = NoDetection
  /\ screen = "crop"
  /\ isMultiPageMode \in BOOLEAN
  /\ scannedPages = <<>>
  /\ currentImage = NoImage
  /\ cropState \in CropStates
  /\ resultCanvas = NoImage
  /\ pdResult = NoResult
  /\ enhanceOutcome = [c \in EnhanceCallers |-> "none"]
  /\ consoleWarnings = {}
  /\ errorToasts = {}
  /\ IdleOrder
  /\ IdleQuad
  /\ IdleWarp
  /\ IdleBackends
  /\ IdleAnalysis
  /\ IdleSide

NextCrop ==
  \/ CvLoads
  \/ ApplyCropAndContinue
  \/ CallInit("processDocument")
  \/ \E c \in EnhanceCallers : InitPollTick(c)
  \/ \E c \in EnhanceCallers : InitTimeout(c)
  \/ CropInitFailed
  \/ CropAfterInit
  \/ CropAfterBlob
  \/ ProcessImageDone
  \/ ProcessDocument
  \/ ProcessDocumentRejected

SpecCrop == InitCrop /\ [][NextCrop]_vars

----------------------------------------------------------------------------
(* Specification of backend loading: preloadModels and processImage load the
   OCR engine and the classifier while startScan and showCropScreen wait for
   OpenCV.  The second specification adds what the event loop guarantees:
   armed timers fire.  Nothing guarantees that an import, engine.initialize()
   or pipeline(..) ever settles. *)

ScannerInitCallers == {"startScan", "showCropScreen"}

InitBackends ==
  /\ IdleBackends
  /\ IdleAnalysis
  /\ IdleSide
  /\ IdleDetect
  /\ IdleOrder
  /\ IdleQuad
  /\ IdleWarp
  /\ IdlePipe

NextBackends ==
  \/ CvLoads
  \/ \E c \in ScannerInitCallers : CallInit(c)
  \/ \E c \in ScannerInitCallers : InitPollTick(c)
  \/ \E c \in ScannerInitCallers : InitTimeout(c)
  \/ \E c \in BackendCallers : OcrInit(c)
  \/ \E c \in BackendCallers : OcrLibraryLoaded(c)
  \/ \E c \in BackendCallers : OcrLibraryFailed(c)
  \/ \E c \in BackendCallers : OcrProgressTick(c)
  \/ \E c \in BackendCallers : OcrInitialized(c)
  \/ \E c \in BackendCallers : OcrInitializeFailed(c)
  \/ \E c \in BackendCallers, useML \in BOOLEAN : ClassifierInit(c, useML)
  \/ \E c \in BackendCallers : TransformersImported(c)
  \/ \E c \in BackendCallers : PipelineLoaded(c)
  \/ \E c \in BackendCallers : MLModelFailed(c)

SpecBackends == InitBackends /\ [][NextBackends]_vars

TimersFire ==
  /\ \A c \in ScannerInitCallers : WF_vars(InitTimeout(c)) /\ WF_vars(InitPollTick(c))
  /\ \A c \in BackendCallers : WF_vars(OcrProgressTick(c))

SpecBackendsLive == SpecBackends /\ TimersFire

----------------------------------------------------------------------------
(* Specification of extractStructuredData over texts that put a date and an
   amount into the sentence of the documentation *)

ExtractTexts ==
  LET DateFragments ==
        {"15.03.2024", "1.2.24", "2024-03-15", "5. März 2024", "3.MAI 2021",
         "31.12.99", "15.03.", "heute"}
      AmountFragments ==
        {"1.234,56 €", "12 EUR", "1.234.567,89 Euro", "1234 eur", "0,99  €", "12,5€",
         "1.234,56"}
  IN  {"Rechnung vom " \o date \o " über " \o sum :
         date \in DateFragments, sum \in AmountFragments}

\* the OCR engine is loaded and both callers' ocrService.init have returned
OcrLoaded ==
  /\ ocrIsReady = TRUE
  /\ engine = "processImage"
  /\ createEngine = TRUE
  /\ ocrLoadProgress = 100
  /\ progressIntervals = {}
  /\ enginesCreated = {"processImage"}
  /\ ocrPc = [c \in BackendCallers |-> "resolved"]

\* processImage after "await ocrService.recognize(img)" with text as the text
Recognized(text) ==
  /\ ocrText = text
  /\ structuredData = NoData
  /\ keywordResult = NoClassification
  /\ mlResult = NoClassification
  /\ classification = NoClassification
  /\ alternatives = <<>>
  /\ analysisPc = "recognized"

InitExtract ==
  /\ \E text \in ExtractTexts : Recognized(text)
  /\ OcrLoaded
  /\ IdleClassifier
  /\ IdleDetect
  /\ IdleOrder
  /\ IdleQuad
  /\ IdleWarp
  /\ IdlePipe
  /\ IdleSide

NextExtract == ExtractStructuredData

SpecExtract == InitExtract /\ [][NextExtract]_vars

----------------------------------------------------------------------------
(* Specification of the classification in processImage: the data is
   extracted, the classifier is initialized (preloadModels may initialize it
   too), classify runs its keyword stage and, when it enters it, its ML
   stage, and getAlternatives is asked for the alternatives *)

ClassifyTexts ==
  {"", "Hallo Welt", "Rechnung vom 15.03.2024 über 1.234,56 €", "Rechnung",
   "Finanzamt", "Gehaltsabrechnung", "Kreditkarte", "Privathaftpflicht",
   "Rechnung, Kopie der Rechnung",
   "Salome und David",
   "DKB Haspa Depot", "Arzt", "Betrag 12,50 EUR", "Steuer Lohn",
   "Rechnung Rechnungsnummer Rechnungsbetrag Zahlungsziel",
   "Finanzamt Depot DKB Haspa", "Finanzamt Elster Depot Aktien DKB Haspa"}

InitClassify ==
  /\ \E text \in ClassifyTexts : Recognized(text)
  /\ OcrLoaded
  /\ IdleClassifier
  /\ IdleDetect
  /\ IdleOrder
  /\ IdleQuad
  /\ IdleWarp
  /\ IdlePipe
  /\ IdleSide

NextClassify ==
  \/ ExtractStructuredData
  \/ \E c \in BackendCallers, useML \in BOOLEAN : ClassifierInit(c, useML)
  \/ \E c \in BackendCallers : TransformersImported(c)
  \/ \E c \in BackendCallers : PipelineLoaded(c)
  \/ \E c \in BackendCallers : MLModelFailed(c)
  \/ Classify
  \/ MlSettles
  \/ GetAlternatives

SpecClassify == InitClassify /\ [][NextClassify]_vars

----------------------------------------------------------------------------
(* Specification of extractBestDate over lists of candidate strings, called
   on two days and in three time zones *)

\* 2024-03-25 10:00 and 2049-12-20 0:00, local time
Todays == {24 * newDate(2024, 2, 25) + 10, 24 * newDate(2049, 11, 20)}

\* New York, UTC, Berlin (winter)
UtcOffsets == {-5, 0, 1}

DateCandidates ==
  {"15.03.2024", "04.04.2024", "25.03.2021", "25.03.2027", "15.03.24", "25.03.2026",
   "31.02.2024", "2024-03-15", "01.01.50", "31.12.51", "1.1.49"}

InitBestDate ==
  /\ today \in Todays
  /\ utcOffset \in UtcOffsets
  /\ dates \in SeqsUpTo(DateCandidates, MaxDates)
  /\ parsedDates = <<>>
  /\ bestDate = "pending"
  /\ IdleMain
  /\ IdleMetadata
  /\ IdleCamera
  /\ IdleDropbox

NextBestDate == ExtractBestDate

SpecBestDate == InitBestDate /\ [][NextBestDate]_vars

----------------------------------------------------------------------------
(* Specification of the camera screen: scans are started from the home
   screen, the loop processes frames, and the user captures, goes back or
   clicks the logo at any moment *)

InitCamera ==
  /\ IdleMain
  /\ IdleSide

NextCamera ==
  \/ StartScan
  \/ CameraStarted
  \/ ScannerInited
  \/ \E latest \in BOOLEAN, detected \in FrameDetections : DetectFrame(latest, detected)
  \/ ManualCapture
  \/ CaptureTimerFires
  \/ CaptureSettles
  \/ CameraBack
  \/ LogoClick

SpecCamera == InitCamera /\ [][NextCamera]_vars

----------------------------------------------------------------------------
(* Specification of a scan from the crop screen on, with the handlers that
   return to the home screen *)

NextFlow ==
  \/ NextCrop
  \/ LogoClick
  \/ CropBack
  \/ \E from \in {"multipage", "edit"} : BackToHome(from)

SpecFlow == InitCrop /\ [][NextFlow]_vars

----------------------------------------------------------------------------
(* Specification of one apiRequest call, for every set of stored tokens *)

InitDropbox ==
  /\ dropboxAPI \in [accessToken : BOOLEAN, refreshToken : BOOLEAN,
                      tokenExpiry : {"null", "soon", "later"}, clientId : BOOLEAN]
  /\ apiCall = NoApiCall
  /\ IdleMain
  /\ IdleDates
  /\ IdleMetadata
  /\ IdleCamera

NextDropbox ==
  \/ ApiRequest
  \/ RefreshSettles
  \/ FetchSettles
  \/ TokenAges

SpecDropbox == InitDropbox /\ [][NextDropbox]_vars

----------------------------------------------------------------------------
(* Properties of detectDocument *)

StrategyOrder == <<"canny", "adaptive", "bright">>

AboveThreshold(confidence) == ConfGT(confidence, Conf(3, 10))

Detected == detection.caller # "none" /\ ~detection.threw

\* every strategy was run and none reached a confidence above 0.3
NoStrategyQualified ==
  /\ Len(detection.ran) = 3
  /\ \A k \in 1..3 : ~AboveThreshold(detection.ran[k].confidence)

\* C1: detectDocument runs the strategies in the order canny, adaptive
\* threshold, bright region; it returns the corners and confidence of the
\* first one whose confidence is strictly above 0.3, and runs no strategy
\* after that one.
C1_FirstQualifyingStrategy ==
  Detected =>
    LET ran == detection.ran
        n == Len(ran)
    IN  /\ n \in 1..3
        /\ \A k \in 1..n : ran[k].strategy = StrategyOrder[k]
        /\ \A k \in 1..(n - 1) : ~AboveThreshold(ran[k].confidence)
        /\ AboveThreshold(ran[n].confidence) =>
             /\ detection.corners = ran[n].corners
             /\ detection.confidence = ran[n].confidence
        /\ ~AboveThreshold(ran[n].confidence) => n = 3

\* canny found a quadrilateral at exactly 0.3, which does not qualify; the
\* adaptive threshold strategy qualified and the bright strategy never ran
C1_Witness ==
  /\ Detected
  /\ Len(detection.ran) = 2
  /\ ConfEq(detection.ran[1].confidence, Conf(3, 10))
  /\ detection.ran[1].corners # <<>>
  /\ AboveThreshold(detection.ran[2].confidence)
  /\ detection.corners = detection.ran[2].corners
  /\ detection.corners # detection.ran[1].corners

\* C2: detectDocument does not throw in any state in which one of its
\* callers can call it; when no document is found it returns a result of
\* confidence 0.
C2_DetectNeverThrows ==
  /\ \A c \in Callers : callerPc[c] = "inited" => isReady
  /\ detection.caller # "none" =>
       /\ ~detection.threw
       /\ detection.corners # <<>>
       /\ NoStrategyQualified => ConfEq(detection.confidence, ConfZero)

\* processDocument, which has no try around the call, got a confidence-0
\* result while the init of another caller had timed out
C2_Witness ==
  /\ detection.caller = "processDocument"
  /\ ~detection.threw
  /\ NoStrategyQualified
  /\ ConfEq(detection.confidence, ConfZero)
  /\ callerPc["startScan"] = "failed"

\* C3: when none of the three strategies reaches a confidence above 0.3,
\* detectDocument returns confidence 0, the reason 'Kein Dokument erkannt'
\* and the image rectangle inset by 10% on every side as top-left,
\* top-right, bottom-right, bottom-left.
C3_FallbackResult ==
  (Detected /\ NoStrategyQualified) =>
     /\ ConfEq(detection.confidence, ConfZero)
     /\ detection.reason = "Kein Dokument erkannt"
     /\ Len(detection.corners) = 4
     /\ 10 * detection.corners[1].x = detection.width
     /\ 10 * detection.corners[1].y = detection.height
     /\ 10 * detection.corners[2].x = 9 * detection.width
     /\ 10 * detection.corners[2].y = detection.height
     /\ 10 * detection.corners[3].x = 9 * detection.width
     /\ 10 * detection.corners[3].y = 9 * detection.height
     /\ 10 * detection.corners[4].x = detection.width
     /\ 10 * detection.corners[4].y = 9 * detection.height

\* the bright strategy found a quadrilateral that the factor 0.9 pushed
\* below the threshold, and the default rectangle was returned
C3_Witness ==
  /\ Detected
  /\ NoStrategyQualified
  /\ detection.ran[3].corners # <<>>
  /\ ConfGT(detection.ran[3].confidence, Conf(1, 4))
  /\ detection.reason = "Kein Dokument erkannt"
  /\ detection.width # detection.height

----------------------------------------------------------------------------
(* Properties of orderCorners *)

cross(o, a, b) == (a.x - o.x) * (b.y - o.y) - (a.y - o.y) * (b.x - o.x)

\* four distinct points, no three of them on a line
NonDegenerate(q) ==
  /\ Len(q) = 4
  /\ \A i, j \in 1..4 : i # j => q[i] # q[j]
  /\ \A i, j, k \in 1..4 :
       (i < j /\ j < k) => cross(q[i], q[j], q[k]) # 0

Sign(n) == IF n > 0 THEN 1 ELSE IF n < 0 THEN -1 ELSE 0

\* segments ab and cd have a point in common
SegmentsMeet(a, b, c, d) ==
  LET d1 == Sign(cross(a, b, c))
      d2 == Sign(cross(a, b, d))
      d3 == Sign(cross(c, d, a))
      d4 == Sign(cross(c, d, b))
      Within(p, q, r) ==   \* r on the box of pq (used when collinear)
        /\ Min2(p.x, q.x) <= r.x /\ r.x <= Max2(p.x, q.x)
        /\ Min2(p.y, q.y) <= r.y /\ r.y <= Max2(p.y, q.y)
  IN  \/ (d1 * d2 < 0 /\ d3 * d4 < 0)
      \/ (d1 = 0 /\ Within(a, b, c))
      \/ (d2 = 0 /\ Within(a, b, d))
      \/ (d3 = 0 /\ Within(c, d, a))
      \/ (d4 = 0 /\ Within(c, d, b))

\* the closed path q1 q2 q3 q4 q1 does not cross itself
SimplePolygon(q) ==
  /\ ~SegmentsMeet(q[1], q[2], q[3], q[4])
  /\ ~SegmentsMeet(q[2], q[3], q[4], q[1])

\* twice the shoelace area; positive when the path runs clockwise on screen
\* (y grows downwards), as (0,0) (W,0) (W,H) (0,H) does
ShoelaceTwice(q) ==
  cross(Pt(0, 0), q[1], q[2]) + cross(Pt(0, 0), q[2], q[3])
    + cross(Pt(0, 0), q[3], q[4]) + cross(Pt(0, 0), q[4], q[1])

\* q holds the points of p, each as often as p does
SamePoints(p, q) ==
  /\ Len(p) = Len(q)
  /\ \A i \in 1..Len(p) :
       Cardinality({j \in 1..Len(p) : p[j] = p[i]})
         = Cardinality({j \in 1..Len(q) : q[j] = p[i]})

FirstHasMinSum(q) == \A i \in 1..4 : q[1].x + q[1].y <= q[i].x + q[i].y

\* [top-left, top-right, bottom-right, bottom-left]: starts at the corner
\* nearest the origin and runs clockwise on screen without crossing
CanonicalOrder(q) ==
  /\ NonDegenerate(q)
  /\ FirstHasMinSum(q)
  /\ SimplePolygon(q)
  /\ ShoelaceTwice(q) > 0

\* C4: for the 4 corners of a non-degenerate quadrilateral, in any input
\* order, orderCorners returns them as [top-left, top-right, bottom-right,
\* bottom-left].
C4_OrderCornersCanonical ==
  (ocCalled /\ NonDegenerate(ocIn)) =>
     (SamePoints(ocIn, ocOut) /\ CanonicalOrder(ocOut))

\* C5: the first point of orderCorners' output has the minimum x + y of the
\* four, and for a non-degenerate input the output, visited in order, traces
\* a polygon that does not intersect itself.
C5_MinSumFirstAndSimple ==
  ocCalled =>
     /\ SamePoints(ocIn, ocOut)
     /\ FirstHasMinSum(ocOut)
     /\ NonDegenerate(ocIn) => SimplePolygon(ocOut)

\* a self-crossing input order was untangled and rotated by the call
C5_Witness ==
  /\ ocCalled
  /\ NonDegenerate(ocIn)
  /\ ~SimplePolygon(ocIn)
  /\ ~FirstHasMinSum(ocIn)
  /\ SimplePolygon(ocOut)
  /\ FirstHasMinSum(ocOut)

\* C6: applied to a quadrilateral already in the order [top-left, top-right,
\* bottom-right, bottom-left], orderCorners returns it unchanged.
C6_IdempotentOnCanonical ==
  (ocCalled /\ CanonicalOrder(ocIn)) => ocOut = ocIn

----------------------------------------------------------------------------
(* Properties of findBestQuadrilateral *)

\* longer side over shorter side lies in [0.4, 2.5]
AspectWithinLimits(q) ==
  LET ar == calculateAspectRatio(q)
  IN  /\ ar.loSq > 0
      /\ 4 * ar.hiSq <= 25 * ar.loSq
      /\ 25 * ar.hiSq >= 4 * ar.loSq

AreaWithinLimits(c, imageArea) ==
  10 * imageArea <= 100 * c.area /\ 100 * c.area <= 98 * imageArea

\* a contour that passes the area filter and the shape filters
Survives(c, imageArea) ==
  /\ AreaWithinLimits(c, imageArea)
  /\ c.numPoints \in 4..8
  /\ AspectWithinLimits(contourCorners(c))

\* min(areaPercent * 2.5, 1)
Score(c, imageArea) ==
  IF 5 * c.area >= 2 * imageArea THEN ConfOne ELSE Conf(5 * c.area, 2 * imageArea)

\* C7: findBestQuadrilateral never returns a quadrilateral whose aspect
\* ratio lies outside [0.4, 2.5], whatever its area.
C7_AspectAlwaysWithinLimits ==
  (fbCalled /\ fbResult.found) =>
     /\ AspectWithinLimits(fbResult.corners)
     /\ \E i \in 1..Len(fbContours) :
          /\ fbResult.corners = contourCorners(fbContours[i])
          /\ fbResult.area = fbContours[i].area

\* the largest contour has a bad aspect ratio and a smaller one was returned
C7_Witness ==
  /\ fbCalled
  /\ fbResult.found
  /\ \E i \in 1..Len(fbContours) :
       /\ AreaWithinLimits(fbContours[i], fbImageArea)
       /\ fbContours[i].numPoints = 4
       /\ ~AspectWithinLimits(contourCorners(fbContours[i]))
       /\ fbContours[i].area > fbResult.area

\* C8: findBestQuadrilateral returns null when no contour survives the
\* area filter [10%, 98%] and the shape filters; otherwise it returns a
\* surviving contour of the highest confidence min(areaPercent * 2.5, 1),
\* which never exceeds 1.
C8_BestSurvivorByConfidence ==
  fbCalled =>
    LET surv == {i \in 1..Len(fbContours) : Survives(fbContours[i], fbImageArea)}
    IN  IF surv = {} THEN ~fbResult.found
        ELSE /\ fbResult.found
             /\ ConfLE(fbResult.confidence, ConfOne)
             /\ \E i \in surv :
                  /\ fbResult.corners = contourCorners(fbContours[i])
                  /\ fbResult.area = fbContours[i].area
                  /\ ConfEq(fbResult.confidence, Score(fbContours[i], fbImageArea))
                  /\ \A j \in surv :
                       ConfLE(Score(fbContours[j], fbImageArea),
                              Score(fbContours[i], fbImageArea))

\* a survivor at 20% came first and the survivor at 40% was returned
C8_Witness ==
  /\ fbCalled
  /\ Len(fbContours) = 2
  /\ Survives(fbContours[1], fbImageArea)
  /\ Survives(fbContours[2], fbImageArea)
  /\ 100 * fbContours[1].area = 20 * fbImageArea
  /\ 100 * fbContours[2].area = 40 * fbImageArea
  /\ fbResult.found
  /\ fbResult.area = fbContours[2].area
  /\ ConfEq(fbResult.confidence, ConfOne)

----------------------------------------------------------------------------
(* Properties of perspectiveTransform *)

WarpedFullFrame == ptOut # NoCanvas /\ ptCorners = FullFrame(ptSource)

\* C9 as stated: for every image of size W x H, perspectiveTransform with
\* the full-frame corners (0,0) (W,0) (W,H) (0,H) yields W x H pixels.
C9_FullFrameKeepsSize ==
  WarpedFullFrame =>
     /\ ~ptOut.threw
     /\ ptOut.width = ptSource.width
     /\ ptOut.height = ptSource.height

\* C9 as amended: with the full-frame corners the output is max(100, W) x
\* max(100, H) pixels, hence exactly W x H when W and H are at least 100.
C9_FullFrameKeepsSizeFrom100 ==
  WarpedFullFrame =>
     /\ ~ptOut.threw
     /\ ptOut.width = (IF ptSource.width >= 100 THEN ptSource.width ELSE 100)
     /\ ptOut.height = (IF ptSource.height >= 100 THEN ptSource.height ELSE 100)

\* a full-frame warp of an image that is larger than 100 both ways and not
\* square kept its size
C9_Witness ==
  /\ WarpedFullFrame
  /\ ptSource.width > 100
  /\ ptSource.height > 100
  /\ ptSource.width # ptSource.height
  /\ ptOut.width = ptSource.width
  /\ ptOut.height = ptSource.height

----------------------------------------------------------------------------
(* Properties of the enhancement step *)

\* what enhance can throw
EnhanceErrors == {"OpenCV not initialized", "cv exception in enhance"}

\* the canvas perspectiveTransform made of the crop
WarpedCrop ==
  Canvas(outputSize(cropState.corners).width, outputSize(cropState.corners).height,
         "warped", "none")

\* the image applyCropAndContinue handed on: the page added in multi-page
\* mode, the image given to processImage otherwise
HandedOn == IF isMultiPageMode THEN scannedPages[Len(scannedPages)] ELSE currentImage

CropHandedOn ==
  /\ callerPc["applyCropAndContinue"] \in {"awaitProcess", "idle"}
  /\ screen # "crop"

\* C10: when enhance throws, its caller applies simpleEnhance to the image
\* it had passed to enhance and goes on with that canvas: applyCropAndContinue
\* converts it and hands it on, processDocument returns it.  The exception is
\* given to console.warn only; it is in no error toast and does not reject
\* processDocument.
C10_EnhanceFailureFallsBack ==
  /\ enhanceOutcome["applyCropAndContinue"] = "threw" =>
       /\ resultCanvas = simpleEnhance(WarpedCrop)
       /\ \E w \in consoleWarnings :
            w.message = "Enhancement failed:" /\ w.error \in EnhanceErrors
       /\ \A t \in errorToasts : t.error \notin EnhanceErrors
       /\ callerPc["applyCropAndContinue"] \in {"awaitBlob", "awaitProcess", "idle"}
       /\ (CropHandedOn /\ \A t \in errorToasts : t.error # "fetch") =>
            HandedOn = resultCanvas
  /\ enhanceOutcome["processDocument"] = "threw" =>
       /\ pdResult.status = "returned"
       /\ pdResult.enhanced
       /\ pdResult.canvas.filter = "simpleEnhance"
       /\ pdResult.canvas.image = IF pdResult.cropped THEN "warped" ELSE "copy"
       /\ \E w \in consoleWarnings :
            /\ w.message = "Enhancement failed, using simple enhance:"
            /\ w.error \in EnhanceErrors

\* enhance threw in both callers: the crop went on to the edit screen with
\* the simply enhanced crop and no error toast, and processDocument returned
\* a simply enhanced copy
C10_Witness ==
  /\ enhanceOutcome["applyCropAndContinue"] = "threw"
  /\ screen = "edit"
  /\ currentImage = simpleEnhance(WarpedCrop)
  /\ currentImage.width > minOutputSize
  /\ errorToasts = {}
  /\ enhanceOutcome["processDocument"] = "threw"
  /\ pdResult.status = "returned"
  /\ ~pdResult.cropped
  /\ pdResult.canvas.filter = "simpleEnhance"

----------------------------------------------------------------------------
(* Properties of failing backend initialization *)

InitTimeoutError == "OpenCV initialization timeout"

\* C11: when the initialization of an optional backend fails, the run goes
\* on with the fallback of that capability and does not fail as a whole: a
\* failed scanner.init does not reject processDocument, and it does not take
\* applyCropAndContinue to its error toast; the image handed on is the simply
\* enhanced one.
C11_InitFailureDegrades ==
  /\ pdResult.error # InitTimeoutError
  /\ \A t \in errorToasts : t.error # InitTimeoutError
  /\ (CropHandedOn /\ ~isReady /\ \A t \in errorToasts : t.error # "fetch") =>
       HandedOn.filter = "simpleEnhance"

\* an init call that has not settled
ScannerInitPending(c) == callerPc[c] = "awaitInit"
OcrInitPending(c) == ocrPc[c] \in {"awaitLibrary", "awaitInitialize"}
MLInitPending(c) == clsPc[c] \in {"awaitTransformers", "awaitPipeline"}

\* C12: the initialization of every optional heavy backend waits a bounded
\* time only: a pending init call of the scanner, of the OCR engine or of
\* the ML model settles unless its backend arrives, so when the backend
\* never becomes available no call stays pending for ever.
C12_BoundedInitWait ==
  /\ \A c \in ScannerInitCallers :
       ScannerInitPending(c) ~> (~ScannerInitPending(c) \/ cvAvailable)
  /\ \A c \in BackendCallers :
       OcrInitPending(c) ~> (~OcrInitPending(c) \/ ocrIsReady)
  /\ \A c \in BackendCallers :
       MLInitPending(c) ~> (~MLInitPending(c) \/ pipeline # "none")

\* an init call on a service that is ready
OcrInitWhenReady == ocrIsReady /\ engine # "none" /\ \E c \in BackendCallers : OcrInit(c)
ClassifierInitWhenReady ==
  clsIsReady /\ \E c \in BackendCallers, useML \in BOOLEAN : ClassifierInit(c, useML)
ScannerInitWhenReady == isReady /\ \E c \in ScannerInitCallers : CallInit(c)

\* C13: initialization is one-time and idempotent: whatever init calls are
\* made on a service, overlapping ones included, its backend is loaded at
\* most once (one OCR engine created and initialized, one pipeline(..) call),
\* and an init call on a service that is ready changes nothing of the
\* service's state.
C13_InitOnceAndIdempotent ==
  /\ [](Cardinality(enginesCreated) <= 1 /\ Cardinality(pipelineLoads) <= 1)
  /\ [][OcrInitWhenReady =>
          UNCHANGED <<ocrIsReady, engine, createEngine, ocrLoadProgress,
                      progressIntervals, enginesCreated>>]_vars
  /\ [][ClassifierInitWhenReady =>
          UNCHANGED <<clsIsReady, useMLModel, pipeline, pipelineLoads>>]_vars
  /\ [][ScannerInitWhenReady => UNCHANGED <<isReady, cvAvailable>>]_vars

----------------------------------------------------------------------------
(* Properties of classify *)

Classified == analysisPc \in {"classified", "reviewed"}

LowConfidence(confidence) == ConfGT(Conf(3, 5), confidence)

\* the step of classify from the keyword stage into the ML stage
EntersMlStage == analysisPc = "extracted" /\ analysisPc' = "awaitML"

\* C14: classify enters the ML stage only when the keyword confidence is
\* below 0.6 and the model is both asked for and loaded; the ML result
\* replaces the keyword result only when its confidence is strictly greater,
\* and in every other case classify returns the keyword result.
C14_MlOnlyRefinesLowConfidence ==
  /\ [][EntersMlStage =>
          /\ LowConfidence(keywordResult'.confidence)
          /\ useMLModel
          /\ pipeline # "none"]_vars
  /\ [](Classified =>
          IF mlResult.method = "ml" /\
             ConfGT(mlResult.confidence, keywordResult.confidence)
          THEN classification = mlResult
          ELSE classification = keywordResult)

\* the ML stage came back exactly as confident as the keyword stage, and
\* the keyword result was returned
C14_Witness ==
  /\ Classified
  /\ mlResult.method = "ml"
  /\ ConfEq(mlResult.confidence, keywordResult.confidence)
  /\ mlResult.category # keywordResult.category
  /\ classification = keywordResult

\* the step of classify that returns without entering the ML stage
ReturnsFromKeywordStage == analysisPc = "extracted" /\ analysisPc' = "classified"

\* C15: without a usable ML backend classify still returns, and returns the
\* keyword result: when the model was not loaded or its loading failed the
\* ML stage is not entered, and when the pipeline throws the keyword result
\* stands.  The placeholder of a failed ML stage is never what classify
\* returns.
C15_MlFailureKeepsKeywordResult ==
  /\ [][(analysisPc = "extracted" /\ analysisPc' # "extracted" /\
         (~useMLModel \/ pipeline = "none")) =>
          ReturnsFromKeywordStage /\ classification' = keywordResult']_vars
  /\ [](analysisPc = "awaitML" => ENABLED MlSettles)
  /\ [](Classified =>
          /\ classification.method \in {"keyword", "ml"}
          /\ mlResult.method # "ml" => classification = keywordResult)

\* the model was loaded, the pipeline threw on a text of low keyword
\* confidence, and classify returned the keyword result
C15_Witness ==
  /\ Classified
  /\ mlResult.method = "ml-error"
  /\ pipeline # "none"
  /\ classification = keywordResult
  /\ classification.method = "keyword"

(* keywordClassify on a text with a single signal *)

\* the keywords of table that textLower includes, each with its category
KeywordsFound(textLower, table) ==
  {<<category, k>> \in UNION {{category} \X (1..Len(table[category])) :
                                category \in DOMAIN table} :
     includes(textLower, table[category][k])}

\* the keyword stage has returned
KeywordStageDone == analysisPc \in {"awaitML", "classified", "reviewed"}

\* the category A when one strong keyword of A is all the text holds (no
\* other strong keyword of any category, no medium keyword, no amount);
\* empty otherwise
SingleStrongKeywordCategory ==
  UNION {UNION {IF /\ Cardinality(found) = 1
                   /\ KeywordsFound(textLower, mediumKeywords) = {}
                   /\ Len(structuredData.amounts) = 0
                THEN {pair[1] : pair \in found}
                ELSE {} :
                found \in {KeywordsFound(textLower, strongKeywords)}} :
           textLower \in {toLowerCase(ocrText)}}

\* C16: for a text that includes exactly one strong keyword, of category A,
\* and no other keyword or amount, the keyword stage returns A, with score 3
\* for A and every other category at its initial score, and a confidence
\* strictly between 0 and 1
C16_SingleStrongKeyword ==
  KeywordStageDone =>
    \A A \in SingleStrongKeywordCategory :
      /\ keywordResult.category = A
      /\ keywordResult.scores[A] = 3 * Tenths
      /\ \A other \in DOMAIN keywordResult.scores \ {A} :
           keywordResult.scores[other] = IF other = "other" THEN 1 ELSE 0
      /\ ConfGT(keywordResult.confidence, ConfZero)
      /\ ConfGT(ConfOne, keywordResult.confidence)

\* the keyword stage has returned for a text whose only signal is one
\* strong keyword of a category that is not the first of the table
C16_Witness ==
  /\ KeywordStageDone
  /\ "vers-haftpflicht" \in SingleStrongKeywordCategory
  /\ keywordResult.method = "keyword"

(* The winner of the keyword stage *)

Position(category) == CHOOSE k \in 1..Len(CategoryOrder) : CategoryOrder[k] = category

\* the text gives no signal: it includes no keyword and holds no amount
NoSignal ==
  \E textLower \in {toLowerCase(ocrText)} :
    /\ KeywordsFound(textLower, strongKeywords) = {}
    /\ KeywordsFound(textLower, mediumKeywords) = {}
    /\ Len(structuredData.amounts) = 0

\* C17: the category the keyword stage returns has the largest score of all
\* categories; every category before it in the order of the score table has
\* a strictly smaller score (of tied categories the first wins); and a text
\* without any signal gets 'other'
C17_ArgMaxFirstOnTie ==
  KeywordStageDone =>
    \E winner \in {Position(keywordResult.category)} :
      /\ \A k \in 1..Len(CategoryOrder) :
           keywordResult.scores[CategoryOrder[k]]
             <= keywordResult.scores[keywordResult.category]
      /\ \A k \in 1..(winner - 1) :
           keywordResult.scores[CategoryOrder[k]]
             < keywordResult.scores[keywordResult.category]
      /\ NoSignal => keywordResult.category = "other"

\* the keyword stage has returned the first of two categories with the
\* same, largest score
C17_Witness ==
  /\ KeywordStageDone
  /\ keywordResult.category # "other"
  /\ \E k \in (Position(keywordResult.category) + 1)..Len(CategoryOrder) :
       keywordResult.scores[CategoryOrder[k]]
         = keywordResult.scores[keywordResult.category]

(* getAlternatives on what classify returned *)

\* the score of the category at position k of the score table
RawScore(result, k) == result.scores[CategoryOrder[k]]

\* C18: for every result of classify that getAlternatives was asked about,
\* the alternatives are the three categories other than the winner with the
\* largest raw scores, in descending order of raw score, each with its raw
\* score divided by the largest raw score of all categories
C18_TopThreeAlternatives ==
  (analysisPc = "reviewed" /\ ConfGT(showReviewIfBelow, classification.confidence)) =>
    /\ Len(alternatives) = 3
    /\ "scores" \in DOMAIN classification
    /\ \A k \in 1..3 :
         /\ alternatives[k].category # classification.category
         /\ \E largest \in {maxOfFirst(classification.scores, Len(CategoryOrder))} :
              alternatives[k].score.n * largest
                = classification.scores[alternatives[k].category] * alternatives[k].score.d
    /\ \A k \in 1..2 :
         classification.scores[alternatives[k].category]
           >= classification.scores[alternatives[k + 1].category]
    /\ \A k \in 1..Len(CategoryOrder) :
         \/ CategoryOrder[k] = classification.category
         \/ \E a \in 1..3 : alternatives[a].category = CategoryOrder[k]
         \/ RawScore(classification, k) <= classification.scores[alternatives[3].category]

\* the same, for the results that come from the keyword stage
C18_KeywordResultsOnly ==
  (analysisPc = "reviewed" /\ ConfGT(showReviewIfBelow, classification.confidence)
     /\ classification.method = "keyword") =>
    /\ Len(alternatives) = 3
    /\ \A k \in 1..3 :
         /\ alternatives[k].category # classification.category
         /\ \E largest \in {maxOfFirst(classification.scores, Len(CategoryOrder))} :
              alternatives[k].score.n * largest
                = classification.scores[alternatives[k].category] * alternatives[k].score.d
    /\ \A k \in 1..2 :
         classification.scores[alternatives[k].category]
           >= classification.scores[alternatives[k + 1].category]
    /\ \A k \in 1..Len(CategoryOrder) :
         \/ CategoryOrder[k] = classification.category
         \/ \E a \in 1..3 : alternatives[a].category = CategoryOrder[k]
         \/ RawScore(classification, k) <= classification.scores[alternatives[3].category]

(* The category ids classify returns *)

\* C19: every key of the score table, every id of categoryMap, and with
\* them the category of every result of the keyword stage and of classify,
\* is the id of a category of CONFIG.categories
C19_CategoriesAreConfigured ==
  /\ \A k \in 1..Len(CategoryOrder) : CategoryOrder[k] \in ConfigCategoryIds
  /\ \A k \in 1..Len(categoryMap) : categoryMap[k] \in ConfigCategoryIds
  /\ KeywordStageDone => keywordResult.category \in ConfigCategoryIds
  /\ Classified => classification.category \in ConfigCategoryIds

\* classify has returned the result of the ML stage, whose category came
\* from the first place of categoryMap
C19_Witness ==
  /\ Classified
  /\ classification.method = "ml"
  /\ classification = mlResult
  /\ classification.category = categoryMap[1]

(* extractStructuredData on the example of the specification *)

ExampleText == "Rechnung vom 15.03.2024 über 1.234,56 €"

\* C20: for the text "Rechnung vom 15.03.2024 über 1.234,56 €"
\* extractStructuredData yields the one date "15.03.2024" and the one
\* amount "1.234,56 €"
C20_ExampleDatesAndAmounts ==
  (analysisPc = "extracted" /\ ocrText = ExampleText) =>
    /\ structuredData.dates = <<"15.03.2024">>
    /\ structuredData.amounts = <<"1.234,56 €">>

\* what extractStructuredData yields for it
C20_ExampleAsExtracted ==
  (analysisPc = "extracted" /\ ocrText = ExampleText) =>
    /\ structuredData.dates = <<"15.03.2024", "15.03.20">>
    /\ structuredData.amounts = <<"1.234,56 €">>

----------------------------------------------------------------------------
(* The output size of perspectiveTransform *)

\* pixels is the distance whose square is squared, rounded to whole pixels
RoundedRoot(pixels, squared) ==
  /\ 4 * squared < (2 * pixels + 1) * (2 * pixels + 1)
  /\ pixels = 0 \/ (2 * pixels - 1) * (2 * pixels - 1) <= 4 * squared

\* pixels is the longer of the sides a-b and c-d, but at least 100
LongerSideFrom100(pixels, a, b, c, d) ==
  /\ pixels >= 100
  /\ \E squared \in {Max2(distanceSq(a, b), distanceSq(c, d))} :
       \/ RoundedRoot(pixels, squared)
       \/ pixels = 100 /\ squared < 100 * 100

\* C22: the output of perspectiveTransform is max(distance(TL,TR),
\* distance(BL,BR)) wide and max(distance(TL,BL), distance(TR,BR)) high, in
\* whole pixels, each raised to 100 when it is smaller: neither dimension is
\* below 100
C22_OutputSizeFlooredAt100 ==
  ptOut # NoCanvas =>
    /\ ~ptOut.threw
    /\ LongerSideFrom100(ptOut.width, ptCorners[1], ptCorners[2],
                         ptCorners[4], ptCorners[3])
    /\ LongerSideFrom100(ptOut.height, ptCorners[1], ptCorners[4],
                         ptCorners[2], ptCorners[3])

\* a warp of a slanted quadrilateral whose width was raised to 100 and
\* whose height is the longer of its two unequal vertical sides
C22_Witness ==
  /\ ptOut # NoCanvas
  /\ ptOut.width = 100
  /\ distanceSq(ptCorners[1], ptCorners[2]) < 100 * 100
  /\ distanceSq(ptCorners[4], ptCorners[3]) < 100 * 100
  /\ ptOut.height > 100
  /\ distanceSq(ptCorners[1], ptCorners[4]) > distanceSq(ptCorners[2], ptCorners[3])

----------------------------------------------------------------------------
(* The points of the keyword stage *)

\* how often keyword occurs in text
Occurrences(text, keyword) ==
  Cardinality({i \in 1..(Len(text) - Len(keyword) + 1) :
                 SubSeq(text, i, i + Len(keyword) - 1) = keyword})

RECURSIVE OccurrencesOfFirst(_, _, _)
\* the occurrences of the first k of keywords in text, added up
OccurrencesOfFirst(text, keywords, k) ==
  IF k = 0 THEN 0
  ELSE Occurrences(text, keywords[k]) + OccurrencesOfFirst(text, keywords, k - 1)

OccurrencesOfAll(text, table, category) ==
  IF category \in DOMAIN table
  THEN OccurrencesOfFirst(text, table[category], Len(table[category]))
  ELSE 0

\* what the keyword loops added to the score of category
KeywordPoints(category) ==
  keywordResult.scores[category] - (IF category = "other" THEN 1 ELSE 0)
    - amountBonus(category, structuredData)

\* C23: the keyword stage adds to a category 3 points for each occurrence
\* of one of its strong keywords in the lowercased text and 1 point for each
\* occurrence of one of its medium keywords
C23_PointsPerOccurrence ==
  KeywordStageDone =>
    \E textLower \in {toLowerCase(ocrText)} :
      \A category \in DOMAIN keywordResult.scores :
        KeywordPoints(category)
          = 3 * Tenths * OccurrencesOfAll(textLower, strongKeywords, category)
              + Tenths * OccurrencesOfAll(textLower, mediumKeywords, category)

\* what holds instead: 3 points for each strong keyword and 1 point for each
\* medium keyword that occurs in the text, however often it occurs
C23_PointsPerKeywordFound ==
  KeywordStageDone =>
    \E textLower \in {toLowerCase(ocrText)} :
      \E strong \in {KeywordsFound(textLower, strongKeywords)} :
        \E medium \in {KeywordsFound(textLower, mediumKeywords)} :
          \A category \in DOMAIN keywordResult.scores :
            KeywordPoints(category)
              = 3 * Tenths * Cardinality({pair \in strong : pair[1] = category})
                  + Tenths * Cardinality({pair \in medium : pair[1] = category})

----------------------------------------------------------------------------
(* The confidence of what detectDocument returns *)

\* the image rectangle inset by a tenth on every side
InsetByTenth(corners, width, height) ==
  /\ Len(corners) = 4
  /\ \A k \in 1..4 :
       /\ 10 * corners[k].x = (IF k \in {1, 4} THEN 1 ELSE 9) * width
       /\ 10 * corners[k].y = (IF k \in {1, 2} THEN 1 ELSE 9) * height

\* C25: every result detectDocument returns has corners, and its confidence
\* is either exactly 0, which it is exactly when the corners are the
\* default rectangle and a reason is set, or above 0.3 and at most 1; no
\* result has a confidence in (0, 0.3]
C25_ConfidenceZeroOrAboveThreshold ==
  Detected =>
    /\ detection.corners # <<>>
    /\ \/ ConfEq(detection.confidence, ConfZero)
       \/ /\ ConfGT(detection.confidence, Conf(3, 10))
          /\ ConfLE(detection.confidence, ConfOne)
    /\ ConfEq(detection.confidence, ConfZero)
         <=> /\ InsetByTenth(detection.corners, detection.width, detection.height)
             /\ detection.reason # ""

\* the bright-region strategy was the first to qualify, and its result was
\* returned with a confidence between 0.3 and 1 and without a reason
C25_Witness ==
  /\ Detected
  /\ Len(detection.ran) = 3
  /\ detection.confidence = detection.ran[3].confidence
  /\ ConfGT(detection.confidence, Conf(3, 10))
  /\ ConfGT(ConfOne, detection.confidence)
  /\ detection.reason = ""

----------------------------------------------------------------------------
(* The progress timer of ocrService.init *)

OcrSettled(c) == ocrPc[c] \in {"resolved", "rejected"}

\* c is the only caller that has called ocrService.init, before and after
\* the step
OnlyOcrCaller(c) ==
  \A other \in BackendCallers \ {c} : ocrPc[other] = "idle" /\ ocrPc'[other] = "idle"

\* C29: once ocrService.init has settled, with success or with failure, its
\* progress timer is stopped: it delivers no further progress, and
\* loadProgress stays as it is, 100 after success and 0 after failure
C29_ProgressTimerStopped ==
  /\ [](\A c \in BackendCallers : OcrSettled(c) => c \notin progressIntervals)
  /\ [][\A c \in BackendCallers :
          (OcrSettled(c) /\ OnlyOcrCaller(c)) =>
             /\ ocrLoadProgress' = ocrLoadProgress
             /\ ocrPc[c] = "resolved" => ocrLoadProgress = 100
             /\ ocrPc[c] = "rejected" => ocrLoadProgress = 0]_vars

\* what holds instead: the timer is stopped once init has succeeded, and
\* loadProgress stays at 100 then
C29_StoppedAfterSuccess ==
  /\ [](\A c \in BackendCallers : ocrPc[c] = "resolved" => c \notin progressIntervals)
  /\ [][\A c \in BackendCallers :
          (ocrPc[c] = "resolved" /\ OnlyOcrCaller(c)) =>
             ocrLoadProgress' = 100 /\ ocrLoadProgress = 100]_vars

----------------------------------------------------------------------------
(* Properties of extractBestDate *)

BestDateReturned == bestDate # "pending"

\* the hours between now and midnight of the candidate's day
HoursFromToday(k) ==
  IF today >= 24 * parsedDates[k].parsed THEN today - 24 * parsedDates[k].parsed
  ELSE 24 * parsedDates[k].parsed - today

\* the candidates that were parsed and lie within two years of today
Qualifying ==
  {k \in 1..Len(parsedDates) :
     parsedDates[k].matched /\ HoursFromToday(k) < 2 * 365 * 24}

\* the qualifying candidates closest to today
Closest == {k \in Qualifying : \A other \in Qualifying : HoursFromToday(k) <= HoursFromToday(other)}

\* the calendar day of candidate k as YYYY-MM-DD
CalendarDay(k) == toISOString(parsedDates[k].parsed, 0)

\* C21: extractBestDate returns the date of the candidate closest to today
\* among those that can be parsed and lie within 2 years of today, and null
\* when there is none; of a candidate 10 days from today and one 3 years
\* from today it returns the first
C21_ClosestWithinTwoYears ==
  BestDateReturned =>
    /\ Qualifying = {} => bestDate = "null"
    /\ Qualifying # {} => \E k \in Closest : bestDate = CalendarDay(k)
    /\ (today = 24 * newDate(2024, 2, 25) + 10
          /\ dates \in {<<"15.03.2024", "25.03.2021">>, <<"25.03.2021", "15.03.2024">>})
         => bestDate = "2024-03-15"

\* what holds instead: the candidate closest to today is selected, and what
\* is returned is the UTC calendar day of its local midnight, which is the
\* day before where local time is ahead of UTC
C21_ClosestAsUtcDay ==
  BestDateReturned =>
    /\ Qualifying = {} => bestDate = "null"
    /\ Qualifying # {} =>
         \E k \in Closest :
           bestDate = IF utcOffset > 0
                      THEN toISOString(parsedDates[k].parsed - 1, 0)
                      ELSE CalendarDay(k)

\* the year candidate k was written with, when it was written with 2 digits
TwoDigitYears(k) ==
  {parseInt(match.groups[3]) : match \in {m \in {matchDate(dates[k])} :
                                            m.found /\ Len(m.groups[3]) = 2}}

\* C24: a candidate with a 2-digit year below 50 is parsed as 20YY, with
\* any other 2-digit year (50 to 99) as 19YY
C24_TwoDigitYearPivot ==
  BestDateReturned =>
    \A k \in 1..Len(dates) :
      \A yy \in TwoDigitYears(k) :
        parsedDates[k].year = IF yy < 50 THEN 2000 + yy ELSE 1900 + yy

\* what holds instead: 50 itself is parsed as 2050
C24_PivotAbove50 ==
  BestDateReturned =>
    \A k \in 1..Len(dates) :
      \A yy \in TwoDigitYears(k) :
        parsedDates[k].year = IF yy <= 50 THEN 2000 + yy ELSE 1900 + yy

----------------------------------------------------------------------------
(* Properties of the camera screen *)

\* detection.confidence > 0.3
FrameHasDocument(f) == 10 * f.confidence.n > 3 * f.confidence.d

\* the corners of a frame in pixels of the video, twice those of the canvas
VideoCorners(f) == [i \in 1..4 |-> Pt(2 * f.corners[i].x, 2 * f.corners[i].y)]

WithinTen(a, b) == a - b <= 10 /\ b - a <= 10

\* a frame with a document whose four corners are within 10 pixels of those
\* of the frame processed before it
StableFrame(f, previous) ==
  /\ FrameHasDocument(f)
  /\ previous # NoFrame
  /\ FrameHasDocument(previous)
  /\ \A i \in 1..4 :
       /\ WithinTen(VideoCorners(f)[i].x, VideoCorners(previous)[i].x)
       /\ WithinTen(VideoCorners(f)[i].y, VideoCorners(previous)[i].y)

\* a step in which detectFrame processes a frame
ProcessesFrame ==
  /\ detectionState.isRunning
  /\ screen = "camera"
  /\ \E latest \in BOOLEAN : DetectFrame(latest, frame')

AutoCaptureScheduled ==
  captureTimers > 0 \/ \E i \in 1..Len(captureCalls) : captureCalls[i].by = "timer"

\* C26: once the loop has scheduled the automatic capture, captureImage runs
\* at most once in the scan, and only while the camera screen is shown
C26_SingleCaptureOnCameraScreen ==
  AutoCaptureScheduled =>
    /\ Len(captureCalls) <= 1
    /\ \A i \in 1..Len(captureCalls) : captureCalls[i].screen = "camera"

----------------------------------------------------------------------------
(* Properties of the return to the home screen *)

\* C27: with the home screen shown after a reset, no step changes the screen,
\* adds a page or sets the metadata
C27_NothingAfterReset ==
  [][screen = "home" =>
       /\ screen' = "home"
       /\ scannedPages' = scannedPages
       /\ currentMetadata' = currentMetadata]_vars

----------------------------------------------------------------------------
(* Properties of apiRequest *)

\* C30: apiRequest calls itself again at most once, whatever the server answers
C30_OneRefreshOneRetry == apiCall.retries <= 1

====
